---- MODULE Spec2Model ----
(***************************************************************************)
(* A model of the isc2kea migration engine: address arithmetic, subnet and *)
(* interface resolution, and the scan / convert pipelines of the Kea and   *)
(* dnsmasq backends.                                                       *)
(*                                                                         *)
(* Addresses are small integers.  0..3 are IPv4 addresses and 4..7 are     *)
(* IPv6 addresses; a CIDR is [net, len] with len in 0..2, where len counts *)
(* the leading bits of the two host bits that are fixed.  The net field is *)
(* the address as written in the document and need not be the network      *)
(* address (ipnet accepts "10.0.0.1/24"); two CIDRs are the same string    *)
(* exactly when both fields agree.                                         *)
(***************************************************************************)
EXTENDS Integers, Sequences, FiniteSets, TLC

VARIABLES
    doc,      \* the configuration document handed to the next operation
    opts,     \* MigrationOptions
    scan,     \* result of scan_config on the input document
    conv,     \* result of the latest convert_config
    prev,     \* the document the latest convert_config read
    written,  \* what the latest convert_config wrote to its writer
    runs,     \* number of convert_config calls made so far
    fn        \* arguments and result of a pure-function call

vars == <<doc, opts, scan, conv, prev, written, runs, fn>>

-----------------------------------------------------------------------------
(* Bounds of the model *)

MaxSubnets == 3

MaxRuns == 2

MaxIfaces == 3

(* the most children an <option_data> or the most <dhcp_options> a target holds *)
MaxOptions == 2

-----------------------------------------------------------------------------
(* Address arithmetic: ipnet's contains() and network() *)

Addr4 == 0..3

Addr6 == 4..7

PrefixLens == 0..2

BlockSize(len) == 2 ^ (2 - len)

Contains(cidr, ip) == (ip \div BlockSize(cidr.len)) = (cidr.net \div BlockSize(cidr.len))

Network(ip, len) == (ip \div BlockSize(len)) * BlockSize(len)

ip_in_subnet(ip, cidr) == Contains(cidr, ip)

-----------------------------------------------------------------------------
(* Vec::sort_by(|a, b| b.0.cmp(&a.0)): a stable sort, greatest prefix first *)

RECURSIVE InsertByPrefix(_, _)
InsertByPrefix(sorted, e) ==
    IF sorted = <<>> THEN <<e>>
    ELSE IF Head(sorted).cidr.len >= e.cidr.len
         THEN <<Head(sorted)>> \o InsertByPrefix(Tail(sorted), e)
         ELSE <<e>> \o sorted

RECURSIVE SortByPrefixFrom(_, _, _)
SortByPrefixFrom(s, i, acc) ==
    IF i > Len(s) THEN acc
    ELSE SortByPrefixFrom(s, i + 1, InsertByPrefix(acc, s[i]))

SortByPrefix(s) == SortByPrefixFrom(s, 1, <<>>)

(* FirstContaining answering the first subnet when none contains the address *)
FirstContaining_or_first(sorted, ip) ==
    IF sorted = <<>> THEN <<>>
    ELSE IF \E i \in 1..Len(sorted) : Contains(sorted[i].cidr, ip)
         THEN <<sorted[CHOOSE i \in 1..Len(sorted) :
                          /\ Contains(sorted[i].cidr, ip)
                          /\ \A j \in 1..(i - 1) : ~Contains(sorted[j].cidr, ip)]>>
         ELSE <<Head(sorted)>>

RECURSIVE FirstContaining(_, _)
FirstContaining(sorted, ip) ==
    IF sorted = <<>> THEN <<>>
    ELSE IF Contains(Head(sorted).cidr, ip) THEN <<Head(sorted)>>
    ELSE FirstContaining(Tail(sorted), ip)

(* find_subnet_for_ip without its sort: the first containing subnet in
   document order *)
find_subnet_for_ip_unsorted(ip, subnets) ==
    LET hit == FirstContaining(subnets, ip)
    IN  IF hit = <<>> THEN [err |-> "NoMatchingSubnet", uuid |-> 0]
        ELSE [err |-> "", uuid |-> hit[1].uuid]

(* find_subnet_for_ip and find_subnet_for_ip_v6: subnets is a sequence of
   [uuid, cidr] in document order *)
find_subnet_for_ip(ip, subnets) ==
    LET hit == FirstContaining(SortByPrefix(subnets), ip)
    IN  IF hit = <<>> THEN [err |-> "NoMatchingSubnet", uuid |-> 0]
        ELSE [err |-> "", uuid |-> hit[1].uuid]

(* iface_for_ip and iface_for_ip_v6: the HashMap is iterated in some order,
   given here as hashOrder, a sequence of [name, cidr] entries *)
iface_for_ip(ip, hashOrder) ==
    LET hit == FirstContaining(SortByPrefix(hashOrder), ip)
    IN  IF hit = <<>> THEN [err |-> "NoMatchingInterface", name |-> ""]
        ELSE [err |-> "", name |-> hit[1].name]

-----------------------------------------------------------------------------
(* Small helpers over sequences *)

RECURSIVE SeqToSet(_)
SeqToSet(s) == IF s = <<>> THEN {} ELSE {Head(s)} \cup SeqToSet(Tail(s))

RECURSIVE SelectSeqBy(_, _)
SelectSeqBy(s, keep) ==
    IF s = <<>> THEN <<>>
    ELSE IF Head(s) \in keep THEN <<Head(s)>> \o SelectSeqBy(Tail(s), keep)
    ELSE SelectSeqBy(Tail(s), keep)

(* Every order in which a HashMap holding the elements of S may iterate *)
HashOrders(S) ==
    {h \in [1..Cardinality(S) -> S] : \A i, j \in 1..Cardinality(S) : h[i] = h[j] => i = j}

(* str::eq_ignore_ascii_case on interface names *)
Lower(name) == IF name = "LAN" THEN "lan" ELSE IF name = "SET" THEN "set" ELSE name

eq_ignore_ascii_case(a, b) == Lower(a) = Lower(b)

-----------------------------------------------------------------------------
(* ConfigExtractor.  The document is a record:
     ifaces   sequence of [name, ip4, len4, ip6, len6] in declared order; ip4 / ip6
              are <<>> for a missing address or a dhcp / dhcp6 / track6 placeholder
              and <<a>> for a static address
     maps4    sequence of [iface, mac, ipaddr, cid] (cid "" when absent)
     maps6    sequence of [iface, duid, ipaddr]
     ranges4, ranges6   sequences of [iface, from, to]
     dhcpd, dhcpdv6   the interface nodes of <dhcpd> / <dhcpdv6> in document
              order, one per interface: [name, enable], enable the text of
              the node's <enable> child, "absent" when it has none
     kea      [dhcp4, dhcp6 : BOOLEAN,
               container4 : BOOLEAN (<dhcp4> has a <subnets> child),
               subnets4, subnets6 : the [uuid, cidr] children of <subnets>,
               direct4 : the [uuid, cidr] <subnet4> children of <dhcp4> itself,
               res4 : sequence of [subnet, ip, hw], res6 : sequence of [subnet, ip, duid],
               ifaces4, ifaces6 : the parts of the <general><interfaces> texts,
               enabled4, enabled6 : BOOLEAN]
     dnsmasq  [present : BOOLEAN, hosts : sequence of [ip, hwaddr, client_id],
               ranges : sequence of [iface, start, end, prefix_len, mask],
               ifaces : the parts of the <interface> text, enabled : BOOLEAN] *)

RECURSIVE CidrEntries(_, _)
CidrEntries(ifaces, v6) ==
    IF ifaces = <<>> THEN <<>>
    ELSE LET i == Head(ifaces)
             ip == IF v6 THEN i.ip6 ELSE i.ip4
             len == IF v6 THEN i.len6 ELSE i.len4
         IN  IF ip = <<>> THEN CidrEntries(Tail(ifaces), v6)
             ELSE <<[name |-> i.name, cidr |-> [net |-> Network(ip[1], len), len |-> len]]>>
                  \o CidrEntries(Tail(ifaces), v6)

(* extract_interface_cidrs: the entries of the returned HashMap *)
extract_interface_cidrs(d) == SeqToSet(CidrEntries(d.ifaces, FALSE))

extract_interface_cidrs_v6(d) == SeqToSet(CidrEntries(d.ifaces, TRUE))

(* HashMap::get *)
CidrOf(entries, name) == {e.cidr : e \in {x \in entries : x.name = name}}

extract_isc_mappings(d) == d.maps4

extract_isc_mappings_v6(d) == d.maps6

extract_isc_ranges(d) == d.ranges4

extract_isc_ranges_v6(d) == d.ranges6

has_kea_dhcp4(d) == d.kea.dhcp4

has_kea_dhcp6(d) == d.kea.dhcp6

(* <subnet4> elements are read from <dhcp4><subnets> when that container
   exists and otherwise from directly under <dhcp4> *)
extract_kea_subnets(d) ==
    IF ~d.kea.dhcp4 THEN <<>>
    ELSE IF d.kea.container4 THEN d.kea.subnets4 ELSE d.kea.direct4

extract_kea_subnets_v6(d) == IF d.kea.dhcp6 THEN d.kea.subnets6 ELSE <<>>

(* a tracker that is not seeded from the document *)
extract_existing_reservation_ips_unseeded(d) == {}

extract_existing_reservation_ips(d) ==
    IF d.kea.dhcp4 THEN {r.ip : r \in SeqToSet(d.kea.res4)} ELSE {}

extract_existing_reservation_ips_v6(d) ==
    IF d.kea.dhcp6 THEN {r.ip : r \in SeqToSet(d.kea.res6)} ELSE {}

extract_existing_reservation_duids_v6(d) ==
    IF d.kea.dhcp6 THEN {r.duid : r \in SeqToSet(d.kea.res6)} ELSE {}

has_dnsmasq(d) == d.dnsmasq.present

(* empty <ip>, <hwaddr> and <client_id> texts are not collected *)
extract_existing_dnsmasq_ips(d) ==
    IF d.dnsmasq.present THEN {h.ip : h \in SeqToSet(d.dnsmasq.hosts)} ELSE {}

extract_existing_dnsmasq_macs(d) ==
    IF d.dnsmasq.present
    THEN {h.hwaddr : h \in {x \in SeqToSet(d.dnsmasq.hosts) : x.hwaddr # ""}}
    ELSE {}

extract_existing_dnsmasq_client_ids(d) ==
    IF d.dnsmasq.present
    THEN {h.client_id : h \in {x \in SeqToSet(d.dnsmasq.hosts) : x.client_id # ""}}
    ELSE {}

range_key(iface, start, end, prefix_len, mask) == <<iface, start, end, prefix_len, mask>>

extract_existing_dnsmasq_ranges(d) ==
    IF d.dnsmasq.present
    THEN {range_key(r.iface, r.start, r.end, r.prefix_len, r.mask) : r \in SeqToSet(d.dnsmasq.ranges)}
    ELSE {}

-----------------------------------------------------------------------------
(* validate_mapping_ifaces_v4 / _v6: the first mapping whose address lies in
   no interface CIDR, or whose most specific interface is not the declared
   one, ends the validation.  hashOrder is the iteration order of the
   interface-CIDR HashMap during this call. *)

(* a validation that accepts every mapping *)
validate_mapping_ifaces_skipped(mappings, hashOrder) == ""

RECURSIVE validate_mapping_ifaces(_, _)
validate_mapping_ifaces(mappings, hashOrder) ==
    IF mappings = <<>> THEN ""
    ELSE LET derived == iface_for_ip(Head(mappings).ipaddr, hashOrder)
         IN  IF derived.err # "" THEN derived.err
             ELSE IF ~eq_ignore_ascii_case(derived.name, Head(mappings).iface)
                  THEN "InterfaceMismatch"
                  ELSE validate_mapping_ifaces(Tail(mappings), hashOrder)

-----------------------------------------------------------------------------
(* desired_subnets_v4 / _v6 *)

RECURSIVE RangeError(_, _)
RangeError(ranges, iface_cidrs) ==
    IF ranges = <<>> THEN ""
    ELSE LET r == Head(ranges)
             cidr == CidrOf(iface_cidrs, r.iface)
         IN  IF cidr = {} THEN "NoInterfaceCidr"
             ELSE IF \E c \in cidr : ~ip_in_subnet(r.from, c) \/ ~ip_in_subnet(r.to, c)
                  THEN "RangeNotInInterfaceSubnet"
                  ELSE RangeError(Tail(ranges), iface_cidrs)

RangesOf(ranges, iface) == SelectSeqBy(ranges, {r \in SeqToSet(ranges) : r.iface = iface})

(* the values of by_iface: one entry per interface that has a range *)
DesiredEntries(ranges, iface_cidrs) ==
    {[iface |-> e.name, cidr |-> e.cidr, ranges |-> RangesOf(ranges, e.name)] :
        e \in {x \in iface_cidrs : \E r \in SeqToSet(ranges) : r.iface = x.name}}

(* err is "" on success; entries is then the content of the returned Vec,
   whose order is that of HashMap::into_values *)
desired_subnets(ranges, iface_cidrs) ==
    LET e == RangeError(ranges, iface_cidrs)
    IN  [err |-> e, entries |-> IF e = "" THEN DesiredEntries(ranges, iface_cidrs) ELSE {}]

desired_subnets_v4(d) == desired_subnets(extract_isc_ranges(d), extract_interface_cidrs(d))

desired_subnets_v6(d) == desired_subnets(extract_isc_ranges_v6(d), extract_interface_cidrs_v6(d))

NoDesired == [err |-> "", entries |-> {}]

-----------------------------------------------------------------------------
(* MigrationStats, and the outcome of an operation: err is "" on success *)

Stats(e, c4, s4, c6, s6) ==
    [err |-> e, to_create |-> c4, skipped |-> s4, to_create_v6 |-> c6, skipped_v6 |-> s6,
     isc_disabled_v4 |-> <<>>, isc_disabled_v6 |-> <<>>]

(* the stats of a convert that disabled the source service *)
WithDisabled(stats, disabled) ==
    [stats EXCEPT !.isc_disabled_v4 = disabled.disabled_v4,
                  !.isc_disabled_v6 = disabled.disabled_v6]

Failed(e) == Stats(e, 0, 0, 0, 0)

(* the first error of a sequence of checks, "" when all pass *)
RECURSIVE FirstErr(_)
FirstErr(errs) ==
    IF errs = <<>> THEN ""
    ELSE IF Head(errs) # "" THEN Head(errs) ELSE FirstErr(Tail(errs))

(* the backend-presence checks of scan_kea and convert_kea left out *)
KeaBackendCheck_skipped(mappings, subnets, has_dhcp, desired, create_subnets, v6) == ""

(* scan_kea / convert_kea: the early backend checks of one family *)
KeaBackendCheck(mappings, subnets, has_dhcp, desired, create_subnets, v6) ==
    IF mappings # <<>> /\ subnets = <<>> /\ ~create_subnets
    THEN IF ~has_dhcp
         THEN (IF v6 THEN "BackendV6NotConfigured" ELSE "BackendNotConfigured")
         ELSE (IF v6 THEN "NoBackendSubnetsV6" ELSE "NoBackendSubnets")
    ELSE IF create_subnets /\ mappings # <<>> /\ subnets = <<>>
         THEN IF ~has_dhcp
              THEN (IF v6 THEN "BackendV6NotConfigured" ELSE "BackendNotConfigured")
              ELSE IF desired = {} THEN "NoRangesForSubnets" ELSE ""
         ELSE ""

-----------------------------------------------------------------------------
(* scan_kea *)

RECURSIVE MaxUuid(_)
MaxUuid(subnets) ==
    IF subnets = <<>> THEN 0
    ELSE IF Head(subnets).uuid > MaxUuid(Tail(subnets)) THEN Head(subnets).uuid
         ELSE MaxUuid(Tail(subnets))

(* Uuid::new_v4(): an identifier no subnet of the list carries *)
NewUuid(subnets) == MaxUuid(subnets) + 1

(* effective_subnets: the existing subnets, then every desired subnet whose
   CIDR is not yet in the list *)
RECURSIVE EffectiveSubnets(_, _)
EffectiveSubnets(effective, desired) ==
    IF desired = <<>> THEN effective
    ELSE IF \E i \in 1..Len(effective) : effective[i].cidr = Head(desired).cidr
         THEN EffectiveSubnets(effective, Tail(desired))
         ELSE EffectiveSubnets(
                  Append(effective, [uuid |-> NewUuid(effective), cidr |-> Head(desired).cidr]),
                  Tail(desired))

(* the DHCPv4 loop of scan_kea *)
RECURSIVE ScanKeaLoop(_, _, _, _, _)
ScanKeaLoop(mappings, reserved_ips, subnets, to_create, skipped) ==
    IF mappings = <<>> THEN [err |-> "", to_create |-> to_create, skipped |-> skipped]
    ELSE LET m == Head(mappings)
         IN  IF m.ipaddr \in reserved_ips
             THEN ScanKeaLoop(Tail(mappings), reserved_ips, subnets, to_create, skipped + 1)
             ELSE IF find_subnet_for_ip(m.ipaddr, subnets).err # ""
                  THEN [err |-> "NoMatchingSubnet", to_create |-> to_create, skipped |-> skipped]
                  ELSE ScanKeaLoop(Tail(mappings), reserved_ips \cup {m.ipaddr}, subnets,
                                   to_create + 1, skipped)

(* the DHCPv6 loop of scan_kea *)
RECURSIVE ScanKeaLoopV6(_, _, _, _, _, _)
ScanKeaLoopV6(mappings, reserved_ips, reserved_duids, subnets, to_create, skipped) ==
    IF mappings = <<>> THEN [err |-> "", to_create |-> to_create, skipped |-> skipped]
    ELSE LET m == Head(mappings)
         IN  IF m.ipaddr \in reserved_ips \/ m.duid \in reserved_duids
             THEN ScanKeaLoopV6(Tail(mappings), reserved_ips, reserved_duids, subnets,
                                to_create, skipped + 1)
             ELSE IF find_subnet_for_ip(m.ipaddr, subnets).err # ""
                  THEN [err |-> "NoMatchingSubnet", to_create |-> to_create, skipped |-> skipped]
                  ELSE ScanKeaLoopV6(Tail(mappings), reserved_ips \cup {m.ipaddr},
                                     reserved_duids \cup {m.duid}, subnets,
                                     to_create + 1, skipped)

(* h4, h6: iteration orders of the interface-CIDR maps; dv4, dv6: the desired
   subnets in the order desired_subnets_v4 / _v6 returned them *)
scan_kea(d, o, h4, h6, dv4, dv6) ==
    LET isc_mappings == extract_isc_mappings(d)
        isc_mappings_v6 == extract_isc_mappings_v6(d)
        kea_subnets == extract_kea_subnets(d)
        kea_subnets_v6 == extract_kea_subnets_v6(d)
        existing_ips == extract_existing_reservation_ips(d)
        existing_ips_v6 == extract_existing_reservation_ips_v6(d)
        existing_duids_v6 == extract_existing_reservation_duids_v6(d)
        desired_v4 == IF o.create_subnets THEN desired_subnets_v4(d) ELSE NoDesired
        desired_v6 == IF o.create_subnets THEN desired_subnets_v6(d) ELSE NoDesired
        early == FirstErr(<<
            desired_v4.err,
            desired_v6.err,
            KeaBackendCheck(isc_mappings, kea_subnets, has_kea_dhcp4(d),
                            desired_v4.entries, o.create_subnets, FALSE),
            KeaBackendCheck(isc_mappings_v6, kea_subnets_v6, has_kea_dhcp6(d),
                            desired_v6.entries, o.create_subnets, TRUE),
            validate_mapping_ifaces(isc_mappings, h4),
            validate_mapping_ifaces(isc_mappings_v6, h6),
            IF o.fail_if_existing
               /\ (existing_ips # {} \/ existing_ips_v6 # {} \/ existing_duids_v6 # {})
            THEN "ExistingReservations" ELSE "">>)
        effective_subnets ==
            IF o.create_subnets THEN EffectiveSubnets(kea_subnets, dv4) ELSE kea_subnets
        effective_subnets_v6 ==
            IF o.create_subnets THEN EffectiveSubnets(kea_subnets_v6, dv6) ELSE kea_subnets_v6
        v4 == ScanKeaLoop(isc_mappings, existing_ips, effective_subnets, 0, 0)
        v6 == ScanKeaLoopV6(isc_mappings_v6, existing_ips_v6, existing_duids_v6,
                            effective_subnets_v6, 0, 0)
    IN  IF early # "" THEN Failed(early)
        ELSE IF v4.err # "" THEN Failed(v4.err)
        ELSE IF v6.err # "" THEN Failed(v6.err)
        ELSE Stats("", v4.to_create, v4.skipped, v6.to_create, v6.skipped)

-----------------------------------------------------------------------------
(* apply_kea_subnets, one family: children is the content of <subnets>,
   existing the CIDRs extract_kea_subnets saw before the call, next the next
   fresh uuid *)

RemoveByCidr(children, cidr) ==
    SelectSeqBy(children, {c \in SeqToSet(children) : c.cidr # cidr})

RECURSIVE ApplySubnets(_, _, _, _, _)
ApplySubnets(children, existing, desired, force, next) ==
    IF desired = <<>> THEN children
    ELSE LET cidr == Head(desired).cidr
         IN  IF cidr \in existing /\ ~force
             THEN ApplySubnets(children, existing, Tail(desired), force, next)
             ELSE ApplySubnets(
                      Append(IF cidr \in existing THEN RemoveByCidr(children, cidr) ELSE children,
                             [uuid |-> next, cidr |-> cidr]),
                      existing, Tail(desired), force, next + 1)

Cidrs(subnets) == {x.cidr : x \in SeqToSet(subnets)}

(* a uuid that no subnet and no reservation of the document carries *)
FreshUuid(d) ==
    LET subnetIds == {x.uuid : x \in SeqToSet(d.kea.subnets4) \cup SeqToSet(d.kea.direct4)
                                      \cup SeqToSet(d.kea.subnets6)}
        linkIds == {r.subnet : r \in SeqToSet(d.kea.res4) \cup SeqToSet(d.kea.res6)}
        all == subnetIds \cup linkIds \cup {0}
    IN  1 + CHOOSE m \in all : \A x \in all : x <= m

(* err is "" on success and doc is then the document after the call *)
apply_kea_subnets(d, dv4, dv6, force) ==
    LET next4 == FreshUuid(d)
        next6 == next4 + Len(dv4)
        kids4 == ApplySubnets(IF d.kea.container4 THEN d.kea.subnets4 ELSE <<>>,
                              Cidrs(extract_kea_subnets(d)), dv4, force, next4)
        kids6 == ApplySubnets(d.kea.subnets6, Cidrs(extract_kea_subnets_v6(d)), dv6, force, next6)
    IN  IF dv4 # <<>> /\ ~d.kea.dhcp4 THEN [err |-> "KeaNotConfigured", doc |-> d]
        ELSE IF dv6 # <<>> /\ ~d.kea.dhcp6 THEN [err |-> "KeaNotConfigured", doc |-> d]
        ELSE [err |-> "",
              doc |-> [d EXCEPT !.kea.container4 = @ \/ dv4 # <<>>,
                                !.kea.subnets4 = IF dv4 # <<>> THEN kids4 ELSE @,
                                !.kea.subnets6 = IF dv6 # <<>> THEN kids6 ELSE @]]

(* the interface names in the order Vec<String>::sort puts them *)
SortedNames == <<"lan", "opt1", "opt2", "wan">>

(* the sorted Vec of the names of a set *)
SortNames(names) == SelectSeqBy(SortedNames, names)

IfaceNames(desired) == {x.iface : x \in SeqToSet(desired)}

(* a merge that forgets the interfaces the field listed *)
MergeInterfaces_replacing(existing, ifaces) == SortNames(ifaces)

(* the interfaces of the desired subnets merged into a listening-interfaces
   field: existing holds the parts of the field's text between the commas,
   the result the parts of the text written back *)
MergeInterfaces(existing, ifaces) == SortNames(ifaces \cup (SeqToSet(existing) \ {""}))

apply_kea_interfaces(d, dv4, dv6) ==
    [d EXCEPT !.kea.ifaces4 = IF dv4 = <<>> THEN @ ELSE MergeInterfaces(@, IfaceNames(dv4)),
              !.kea.ifaces6 = IF dv6 = <<>> THEN @ ELSE MergeInterfaces(@, IfaceNames(dv6))]

-----------------------------------------------------------------------------
(* convert_kea *)

create_reservation_element(m, subnet_uuid) ==
    [subnet |-> subnet_uuid, ip |-> m.ipaddr, hw |-> m.mac]

create_reservation_element_v6(m, subnet_uuid) ==
    [subnet |-> subnet_uuid, ip |-> m.ipaddr, duid |-> m.duid]

(* the DHCPv4 loop of convert_kea without the tracker's update on acceptance *)
RECURSIVE ConvertKeaLoop_untracked(_, _, _, _, _, _)
ConvertKeaLoop_untracked(mappings, reserved_ips, subnets, res, to_create, skipped) ==
    IF mappings = <<>>
    THEN [err |-> "", res |-> res, to_create |-> to_create, skipped |-> skipped]
    ELSE LET m == Head(mappings)
             found == find_subnet_for_ip(m.ipaddr, subnets)
         IN  IF m.ipaddr \in reserved_ips
             THEN ConvertKeaLoop_untracked(Tail(mappings), reserved_ips, subnets, res,
                                           to_create, skipped + 1)
             ELSE IF found.err # ""
                  THEN [err |-> found.err, res |-> res,
                        to_create |-> to_create, skipped |-> skipped]
                  ELSE ConvertKeaLoop_untracked(Tail(mappings), reserved_ips, subnets,
                                      Append(res, create_reservation_element(m, found.uuid)),
                                      to_create + 1, skipped)

(* the DHCPv6 loop of convert_kea deduplicating on the address alone *)
RECURSIVE ConvertKeaLoopV6_by_address(_, _, _, _, _, _, _)
ConvertKeaLoopV6_by_address(mappings, reserved_ips, reserved_duids, subnets, res, to_create, skipped) ==
    IF mappings = <<>>
    THEN [err |-> "", res |-> res, to_create |-> to_create, skipped |-> skipped]
    ELSE LET m == Head(mappings)
             found == find_subnet_for_ip(m.ipaddr, subnets)
         IN  IF m.ipaddr \in reserved_ips
             THEN ConvertKeaLoopV6_by_address(Tail(mappings), reserved_ips, reserved_duids,
                                              subnets, res, to_create, skipped + 1)
             ELSE IF found.err # ""
                  THEN [err |-> found.err, res |-> res,
                        to_create |-> to_create, skipped |-> skipped]
                  ELSE ConvertKeaLoopV6_by_address(Tail(mappings), reserved_ips \cup {m.ipaddr},
                                        reserved_duids \cup {m.duid}, subnets,
                                        Append(res, create_reservation_element_v6(m, found.uuid)),
                                        to_create + 1, skipped)

(* a loop that leaves <reservations> without a record *)
ConvertKeaLoop_cleared(mappings, reserved_ips, subnets, res, to_create, skipped) ==
    [err |-> "", res |-> <<>>, to_create |-> to_create, skipped |-> skipped]

(* the DHCPv4 loop of convert_kea: res is the content of <reservations> *)
RECURSIVE ConvertKeaLoop(_, _, _, _, _, _)
ConvertKeaLoop(mappings, reserved_ips, subnets, res, to_create, skipped) ==
    IF mappings = <<>>
    THEN [err |-> "", res |-> res, to_create |-> to_create, skipped |-> skipped]
    ELSE LET m == Head(mappings)
             found == find_subnet_for_ip(m.ipaddr, subnets)
         IN  IF m.ipaddr \in reserved_ips
             THEN ConvertKeaLoop(Tail(mappings), reserved_ips, subnets, res,
                                 to_create, skipped + 1)
             ELSE IF found.err # ""
                  THEN [err |-> found.err, res |-> res,
                        to_create |-> to_create, skipped |-> skipped]
                  ELSE ConvertKeaLoop(Tail(mappings), reserved_ips \cup {m.ipaddr}, subnets,
                                      Append(res, create_reservation_element(m, found.uuid)),
                                      to_create + 1, skipped)

(* the DHCPv6 loop of convert_kea *)
RECURSIVE ConvertKeaLoopV6(_, _, _, _, _, _, _)
ConvertKeaLoopV6(mappings, reserved_ips, reserved_duids, subnets, res, to_create, skipped) ==
    IF mappings = <<>>
    THEN [err |-> "", res |-> res, to_create |-> to_create, skipped |-> skipped]
    ELSE LET m == Head(mappings)
             found == find_subnet_for_ip(m.ipaddr, subnets)
         IN  IF m.ipaddr \in reserved_ips \/ m.duid \in reserved_duids
             THEN ConvertKeaLoopV6(Tail(mappings), reserved_ips, reserved_duids, subnets, res,
                                   to_create, skipped + 1)
             ELSE IF found.err # ""
                  THEN [err |-> found.err, res |-> res,
                        to_create |-> to_create, skipped |-> skipped]
                  ELSE ConvertKeaLoopV6(Tail(mappings), reserved_ips \cup {m.ipaddr},
                                        reserved_duids \cup {m.duid}, subnets,
                                        Append(res, create_reservation_element_v6(m, found.uuid)),
                                        to_create + 1, skipped)

(* ServiceToggler *)

(* str::trim on the texts an <enable> holds in the model *)
Trim(v) == IF v = " 0 " THEN "0" ELSE IF v = " " THEN "" ELSE v

(* an interface node with an <enable> counting as enabled whatever it holds *)
IsEnabled_if_present(node) == node.enable # "absent"

(* the match of isc_enabled_ifaces: get_text is None for a missing <enable>
   and for one without text *)
IsEnabled(node) ==
    IF node.enable = "absent" \/ node.enable = "" THEN FALSE
    ELSE ~(Trim(node.enable) = "" \/ Trim(node.enable) = "0")

isc_enabled_ifaces(nodes) == SortNames({n.name : n \in {x \in SeqToSet(nodes) : IsEnabled(x)}})

(* the position of the first child of the name, 0 if there is none *)
ChildAt(nodes, name) ==
    LET at == {i \in 1..Len(nodes) : eq_ignore_ascii_case(nodes[i].name, name)}
    IN  IF at = {} THEN 0 ELSE CHOOSE i \in at : \A j \in at : i <= j

(* set_enable_element_generic(node, false): the <enable> child is removed *)
ClearEnable(node) == [node EXCEPT !.enable = "absent"]

(* a disabling that reports every interface node of the section *)
RECURSIVE DisableIfaces_all_reported(_, _, _)
DisableIfaces_all_reported(nodes, ifaces, disabled) ==
    IF ifaces = <<>>
    THEN [nodes |-> nodes, disabled |-> SortNames({n.name : n \in SeqToSet(nodes)})]
    ELSE LET at == ChildAt(nodes, Head(ifaces))
         IN  IF at = 0 THEN DisableIfaces_all_reported(nodes, Tail(ifaces), disabled)
             ELSE DisableIfaces_all_reported([nodes EXCEPT ![at] = ClearEnable(@)],
                                             Tail(ifaces), Append(disabled, Head(ifaces)))

(* one family of disable_isc_dhcp_ifaces: nodes are the children of the
   section, ifaces the names to disable, disabled the Vec pushed so far *)
RECURSIVE DisableIfaces(_, _, _)
DisableIfaces(nodes, ifaces, disabled) ==
    IF ifaces = <<>>
    THEN [nodes |-> nodes, disabled |-> SortNames(SeqToSet(disabled))]
    ELSE LET at == ChildAt(nodes, Head(ifaces))
         IN  IF at = 0 THEN DisableIfaces(nodes, Tail(ifaces), disabled)
             ELSE DisableIfaces([nodes EXCEPT ![at] = ClearEnable(@)],
                                Tail(ifaces), Append(disabled, Head(ifaces)))

disable_isc_dhcp_ifaces(d, ifaces_v4, ifaces_v6) ==
    LET v4 == DisableIfaces(d.dhcpd, ifaces_v4, <<>>)
        v6 == DisableIfaces(d.dhcpdv6, ifaces_v6, <<>>)
    IN  [doc |-> [d EXCEPT !.dhcpd = v4.nodes, !.dhcpdv6 = v6.nodes],
         disabled_v4 |-> v4.disabled, disabled_v6 |-> v6.disabled]

(* the outcome is [doc, disabled_v4, disabled_v6] *)
disable_isc_dhcp_from_config(d) ==
    disable_isc_dhcp_ifaces(d, isc_enabled_ifaces(d.dhcpd), isc_enabled_ifaces(d.dhcpdv6))

(* an enable_kea that enables every family whose node exists *)
enable_kea_every_family(d, has_v4_subnets, has_v6_subnets) ==
    [d EXCEPT !.kea.enabled4 = @ \/ d.kea.dhcp4, !.kea.enabled6 = @ \/ d.kea.dhcp6]

(* enable_kea: a family is enabled when it has subnets and its node exists *)
enable_kea(d, has_v4_subnets, has_v6_subnets) ==
    [d EXCEPT !.kea.enabled4 = @ \/ (has_v4_subnets /\ d.kea.dhcp4),
              !.kea.enabled6 = @ \/ (has_v6_subnets /\ d.kea.dhcp6)]

(* the outcome is [stats, doc]; doc is the tree convert_config goes on to
   write when stats.err is "" *)
(* the end of convert_kea: the reservations the loops appended are kept and
   the backend is enabled; on an error doc is the tree as the error left it,
   with what was applied and appended before *)
ConvertKeaResult(d, d1, o, early, v4, v6, has_v4_subnets, has_v6_subnets) ==
    LET d2 == [d1 EXCEPT !.kea.res4 = v4.res, !.kea.res6 = v6.res]
        late == IF ~o.enable_backend THEN ""
                ELSE IF has_v4_subnets /\ ~d2.kea.dhcp4 THEN "EnableFailed"
                ELSE IF has_v6_subnets /\ ~d2.kea.dhcp6 THEN "EnableFailed"
                ELSE ""
    IN  IF early # "" THEN [stats |-> Failed(early), doc |-> d1]
        ELSE IF v4.err # ""
             THEN [stats |-> Failed(v4.err), doc |-> [d1 EXCEPT !.kea.res4 = v4.res]]
        ELSE IF v6.err # "" THEN [stats |-> Failed(v6.err), doc |-> d2]
        ELSE IF late # "" THEN [stats |-> Failed(late), doc |-> d2]
        ELSE IF o.enable_backend
        THEN [stats |-> WithDisabled(
                            Stats("", v4.to_create, v4.skipped, v6.to_create, v6.skipped),
                            disable_isc_dhcp_from_config(d2)),
              doc |-> enable_kea(disable_isc_dhcp_from_config(d2).doc,
                                 has_v4_subnets, has_v6_subnets)]
        ELSE [stats |-> Stats("", v4.to_create, v4.skipped, v6.to_create, v6.skipped),
              doc |-> d2]

(* convert_kea once the desired subnets are built and applied: d1 is the
   document with the subnets and interfaces applied *)
ConvertKeaApplied(d, d1, o, h4, h6, desired_v4, desired_v6, applied_err) ==
    LET isc_mappings == extract_isc_mappings(d)
        isc_mappings_v6 == extract_isc_mappings_v6(d)
        existing_ips == extract_existing_reservation_ips(d)
        existing_ips_v6 == extract_existing_reservation_ips_v6(d)
        existing_duids_v6 == extract_existing_reservation_duids_v6(d)
        kea_subnets == extract_kea_subnets(d1)
        kea_subnets_v6 == extract_kea_subnets_v6(d1)
    IN  ConvertKeaResult(d, d1, o,
            FirstErr(<<
                desired_v4.err,
                desired_v6.err,
                applied_err,
                validate_mapping_ifaces(isc_mappings, h4),
                validate_mapping_ifaces(isc_mappings_v6, h6),
                KeaBackendCheck(isc_mappings, kea_subnets, has_kea_dhcp4(d1),
                                desired_v4.entries, o.create_subnets, FALSE),
                KeaBackendCheck(isc_mappings_v6, kea_subnets_v6, has_kea_dhcp6(d1),
                                desired_v6.entries, o.create_subnets, TRUE),
                IF o.fail_if_existing
                   /\ (existing_ips # {} \/ existing_ips_v6 # {} \/ existing_duids_v6 # {})
                THEN "ExistingReservations" ELSE "">>),
            IF isc_mappings # <<>> /\ ~d1.kea.dhcp4
            THEN [err |-> "KeaNotConfigured", res |-> d1.kea.res4,
                  to_create |-> 0, skipped |-> 0]
            ELSE ConvertKeaLoop(isc_mappings, existing_ips, kea_subnets, d1.kea.res4, 0, 0),
            IF isc_mappings_v6 # <<>> /\ ~d1.kea.dhcp6
            THEN [err |-> "BackendV6NotConfigured", res |-> d1.kea.res6,
                  to_create |-> 0, skipped |-> 0]
            ELSE ConvertKeaLoopV6(isc_mappings_v6, existing_ips_v6, existing_duids_v6,
                                  kea_subnets_v6, d1.kea.res6, 0, 0),
            kea_subnets # <<>>, kea_subnets_v6 # <<>>)

(* convert_kea once the desired subnets are built *)
ConvertKeaDesired(d, o, h4, h6, dv4, dv6, desired_v4, desired_v6, applied) ==
    ConvertKeaApplied(d,
        IF o.create_subnets /\ applied.err = ""
        THEN apply_kea_interfaces(applied.doc, dv4, dv6)
        ELSE d,
        o, h4, h6, desired_v4, desired_v6, applied.err)

convert_kea(d, o, h4, h6, dv4, dv6) ==
    LET want_desired == o.create_subnets \/ o.enable_backend
        desired_v4 == IF want_desired THEN desired_subnets_v4(d) ELSE NoDesired
        desired_v6 == IF want_desired THEN desired_subnets_v6(d) ELSE NoDesired
    IN  ConvertKeaDesired(d, o, h4, h6, dv4, dv6, desired_v4, desired_v6,
            IF o.create_subnets /\ desired_v4.err = "" /\ desired_v6.err = ""
            THEN apply_kea_subnets(d, dv4, dv6, o.force_subnets)
            ELSE [err |-> "", doc |-> d])

-----------------------------------------------------------------------------
(* scan_dnsmasq *)

(* the DHCPv4 loop of scan_dnsmasq: the result carries the tracker on *)
RECURSIVE ScanDnsmasqLoop(_, _, _, _, _)
ScanDnsmasqLoop(mappings, reserved_ips, reserved_macs, to_create, skipped) ==
    IF mappings = <<>>
    THEN [ips |-> reserved_ips, to_create |-> to_create, skipped |-> skipped]
    ELSE LET m == Head(mappings)
         IN  IF m.ipaddr \in reserved_ips \/ m.mac \in reserved_macs
             THEN ScanDnsmasqLoop(Tail(mappings), reserved_ips, reserved_macs,
                                  to_create, skipped + 1)
             ELSE ScanDnsmasqLoop(Tail(mappings), reserved_ips \cup {m.ipaddr},
                                  reserved_macs \cup {m.mac}, to_create + 1, skipped)

(* the DHCPv6 loop of scan_dnsmasq *)
RECURSIVE ScanDnsmasqLoopV6(_, _, _, _, _)
ScanDnsmasqLoopV6(mappings, reserved_ips, reserved_client_ids, to_create, skipped) ==
    IF mappings = <<>> THEN [to_create |-> to_create, skipped |-> skipped]
    ELSE LET m == Head(mappings)
         IN  IF m.ipaddr \in reserved_ips \/ m.duid \in reserved_client_ids
             THEN ScanDnsmasqLoopV6(Tail(mappings), reserved_ips, reserved_client_ids,
                                    to_create, skipped + 1)
             ELSE ScanDnsmasqLoopV6(Tail(mappings), reserved_ips \cup {m.ipaddr},
                                    reserved_client_ids \cup {m.duid}, to_create + 1, skipped)

(* h4, h6: iteration orders of the interface-CIDR maps *)
scan_dnsmasq(d, o, h4, h6) ==
    LET isc_mappings == extract_isc_mappings(d)
        isc_mappings_v6 == extract_isc_mappings_v6(d)
        desired_v4 == IF o.create_subnets THEN desired_subnets_v4(d) ELSE NoDesired
        desired_v6 == IF o.create_subnets THEN desired_subnets_v6(d) ELSE NoDesired
        existing_ips == extract_existing_dnsmasq_ips(d)
        existing_macs == extract_existing_dnsmasq_macs(d)
        existing_client_ids == extract_existing_dnsmasq_client_ids(d)
        existing_ranges == extract_existing_dnsmasq_ranges(d)
        early == FirstErr(<<
            desired_v4.err,
            desired_v6.err,
            IF (isc_mappings # <<>> \/ isc_mappings_v6 # <<>>
                \/ desired_v4.entries # {} \/ desired_v6.entries # {})
               /\ ~has_dnsmasq(d)
            THEN "BackendNotConfigured" ELSE "",
            IF o.fail_if_existing
               /\ (existing_ips # {} \/ existing_macs # {} \/ existing_client_ids # {}
                   \/ (o.create_subnets /\ existing_ranges # {}))
            THEN "ExistingReservations" ELSE "",
            validate_mapping_ifaces(isc_mappings, h4),
            validate_mapping_ifaces(isc_mappings_v6, h6)>>)
        v4 == ScanDnsmasqLoop(isc_mappings, existing_ips, existing_macs, 0, 0)
        v6 == ScanDnsmasqLoopV6(isc_mappings_v6, v4.ips, existing_client_ids, 0, 0)
    IN  IF early # "" THEN Failed(early)
        ELSE Stats("", v4.to_create, v4.skipped, v6.to_create, v6.skipped)

-----------------------------------------------------------------------------
(* convert_dnsmasq *)

(* Ipv4Net::netmask of a prefix length, as the number its dotted form denotes *)
prefix_to_netmask(prefix) == 4 - BlockSize(prefix)

(* <dhcp_ranges> elements: a DHCPv4 range carries a subnet mask and no prefix
   length, a DHCPv6 range a prefix length and no mask; -1 is the empty text *)
create_dnsmasq_range_element_v4(iface, from, to, mask) ==
    [iface |-> iface, start |-> from, end |-> to, prefix_len |-> -1, mask |-> mask]

create_dnsmasq_range_element_v6(iface, from, to, prefix) ==
    [iface |-> iface, start |-> from, end |-> to, prefix_len |-> prefix, mask |-> -1]

create_dnsmasq_host_element(m) == [ip |-> m.ipaddr, hwaddr |-> m.mac, client_id |-> m.cid]

create_dnsmasq_host_element_v6(m) == [ip |-> m.ipaddr, hwaddr |-> "", client_id |-> m.duid]

KeyOf(elem) == range_key(elem.iface, elem.start, elem.end, elem.prefix_len, elem.mask)

(* the ranges of one desired subnet *)
RECURSIVE ApplyRanges(_, _, _, _, _, _)
ApplyRanges(children, existing_ranges, subnet, ranges, force, v6) ==
    IF ranges = <<>> THEN children
    ELSE LET r == Head(ranges)
             elem == IF v6
                     THEN create_dnsmasq_range_element_v6(subnet.iface, r.from, r.to,
                                                          subnet.cidr.len)
                     ELSE create_dnsmasq_range_element_v4(subnet.iface, r.from, r.to,
                                                          prefix_to_netmask(subnet.cidr.len))
             key == IF v6
                    THEN range_key(subnet.iface, r.from, r.to, subnet.cidr.len, -1)
                    ELSE range_key(subnet.iface, r.from, r.to, -1,
                                   prefix_to_netmask(subnet.cidr.len))
         IN  IF key \in existing_ranges /\ ~force
             THEN ApplyRanges(children, existing_ranges, subnet, Tail(ranges), force, v6)
             ELSE ApplyRanges(
                      Append(IF key \in existing_ranges
                             THEN SelectSeqBy(children,
                                              {c \in SeqToSet(children) : KeyOf(c) # key})
                             ELSE children,
                             elem),
                      existing_ranges, subnet, Tail(ranges), force, v6)

(* the range loops of convert_dnsmasq over the desired subnets of one family *)
RECURSIVE ApplyDesiredRanges(_, _, _, _, _)
ApplyDesiredRanges(children, existing_ranges, desired, force, v6) ==
    IF desired = <<>> THEN children
    ELSE ApplyDesiredRanges(
             ApplyRanges(children, existing_ranges, Head(desired), Head(desired).ranges,
                         force, v6),
             existing_ranges, Tail(desired), force, v6)

(* the DHCPv4 host loop of convert_dnsmasq deduplicating on the address alone *)
RECURSIVE ConvertDnsmasqLoop_by_address(_, _, _, _, _, _)
ConvertDnsmasqLoop_by_address(mappings, reserved_ips, reserved_macs, hosts, to_create, skipped) ==
    IF mappings = <<>>
    THEN [ips |-> reserved_ips, hosts |-> hosts, to_create |-> to_create, skipped |-> skipped]
    ELSE LET m == Head(mappings)
         IN  IF m.ipaddr \in reserved_ips
             THEN ConvertDnsmasqLoop_by_address(Tail(mappings), reserved_ips, reserved_macs,
                                                hosts, to_create, skipped + 1)
             ELSE ConvertDnsmasqLoop_by_address(Tail(mappings), reserved_ips \cup {m.ipaddr},
                                     reserved_macs \cup {m.mac},
                                     Append(hosts, create_dnsmasq_host_element(m)),
                                     to_create + 1, skipped)

(* the DHCPv4 host loop of convert_dnsmasq: hosts is the <hosts> content *)
RECURSIVE ConvertDnsmasqLoop(_, _, _, _, _, _)
ConvertDnsmasqLoop(mappings, reserved_ips, reserved_macs, hosts, to_create, skipped) ==
    IF mappings = <<>>
    THEN [ips |-> reserved_ips, hosts |-> hosts, to_create |-> to_create, skipped |-> skipped]
    ELSE LET m == Head(mappings)
         IN  IF m.ipaddr \in reserved_ips \/ m.mac \in reserved_macs
             THEN ConvertDnsmasqLoop(Tail(mappings), reserved_ips, reserved_macs, hosts,
                                     to_create, skipped + 1)
             ELSE ConvertDnsmasqLoop(Tail(mappings), reserved_ips \cup {m.ipaddr},
                                     reserved_macs \cup {m.mac},
                                     Append(hosts, create_dnsmasq_host_element(m)),
                                     to_create + 1, skipped)

(* the DHCPv6 host loop of convert_dnsmasq *)
RECURSIVE ConvertDnsmasqLoopV6(_, _, _, _, _, _)
ConvertDnsmasqLoopV6(mappings, reserved_ips, reserved_client_ids, hosts, to_create, skipped) ==
    IF mappings = <<>>
    THEN [hosts |-> hosts, to_create |-> to_create, skipped |-> skipped]
    ELSE LET m == Head(mappings)
         IN  IF m.ipaddr \in reserved_ips \/ m.duid \in reserved_client_ids
             THEN ConvertDnsmasqLoopV6(Tail(mappings), reserved_ips, reserved_client_ids, hosts,
                                       to_create, skipped + 1)
             ELSE ConvertDnsmasqLoopV6(Tail(mappings), reserved_ips \cup {m.ipaddr},
                                       reserved_client_ids \cup {m.duid},
                                       Append(hosts, create_dnsmasq_host_element_v6(m)),
                                       to_create + 1, skipped)

apply_dnsmasq_interfaces(d, dv4, dv6) ==
    [d EXCEPT !.dnsmasq.ifaces = IF dv4 = <<>> /\ dv6 = <<>> THEN @
                                 ELSE MergeInterfaces(@, IfaceNames(dv4) \cup IfaceNames(dv6))]

(* an enable_dnsmasq that leaves the <enable> as it is *)
enable_dnsmasq_untouched(d) == d

enable_dnsmasq(d) == [d EXCEPT !.dnsmasq.enabled = @ \/ d.dnsmasq.present]

(* the outcome is [stats, doc], as for convert_kea *)
convert_dnsmasq(d, o, h4, h6, dv4, dv6) ==
    LET isc_mappings == extract_isc_mappings(d)
        isc_mappings_v6 == extract_isc_mappings_v6(d)
        want_desired == o.create_subnets \/ o.enable_backend
        desired_v4 == IF want_desired THEN desired_subnets_v4(d) ELSE NoDesired
        desired_v6 == IF want_desired THEN desired_subnets_v6(d) ELSE NoDesired
        existing_ips == extract_existing_dnsmasq_ips(d)
        existing_macs == extract_existing_dnsmasq_macs(d)
        existing_client_ids == extract_existing_dnsmasq_client_ids(d)
        existing_ranges == extract_existing_dnsmasq_ranges(d)
        early == FirstErr(<<
            desired_v4.err,
            desired_v6.err,
            IF (isc_mappings # <<>> \/ isc_mappings_v6 # <<>>
                \/ desired_v4.entries # {} \/ desired_v6.entries # {})
               /\ ~has_dnsmasq(d)
            THEN "BackendNotConfigured" ELSE "",
            IF o.fail_if_existing
               /\ (existing_ips # {} \/ existing_macs # {} \/ existing_client_ids # {}
                   \/ (o.create_subnets /\ existing_ranges # {}))
            THEN "ExistingReservations" ELSE "",
            validate_mapping_ifaces(isc_mappings, h4),
            validate_mapping_ifaces(isc_mappings_v6, h6)>>)
        ranges4 == IF o.create_subnets
                   THEN ApplyDesiredRanges(d.dnsmasq.ranges, existing_ranges, dv4,
                                           o.force_subnets, FALSE)
                   ELSE d.dnsmasq.ranges
        ranges6 == IF o.create_subnets
                   THEN ApplyDesiredRanges(ranges4, existing_ranges, dv6, o.force_subnets, TRUE)
                   ELSE ranges4
        v4 == ConvertDnsmasqLoop(isc_mappings, existing_ips, existing_macs,
                                 d.dnsmasq.hosts, 0, 0)
        v6 == ConvertDnsmasqLoopV6(isc_mappings_v6, v4.ips, existing_client_ids,
                                   v4.hosts, 0, 0)
        d1 == [d EXCEPT !.dnsmasq.ranges = ranges6, !.dnsmasq.hosts = v6.hosts]
        d2 == IF o.create_subnets THEN apply_dnsmasq_interfaces(d1, dv4, dv6) ELSE d1
        has_ranges == desired_v4.entries # {} \/ desired_v6.entries # {} \/ existing_ranges # {}
        d3 == IF o.enable_backend
              THEN (IF has_ranges THEN enable_dnsmasq(disable_isc_dhcp_from_config(d2).doc)
                    ELSE disable_isc_dhcp_from_config(d2).doc)
              ELSE d2
        late == IF o.enable_backend /\ has_ranges /\ ~d.dnsmasq.present
                THEN "EnableFailed" ELSE ""
    IN  IF early # "" THEN [stats |-> Failed(early), doc |-> d]
        ELSE IF late # "" THEN [stats |-> Failed(late), doc |-> d]
        ELSE [stats |-> IF o.enable_backend
                        THEN WithDisabled(
                                 Stats("", v4.to_create, v4.skipped, v6.to_create, v6.skipped),
                                 disable_isc_dhcp_from_config(d2))
                        ELSE Stats("", v4.to_create, v4.skipped, v6.to_create, v6.skipped),
              doc |-> d3]

-----------------------------------------------------------------------------
(* scan_config and convert_config *)

scan_config(d, o, h4, h6, dv4, dv6) ==
    IF o.backend = "Kea" THEN scan_kea(d, o, h4, h6, dv4, dv6)
    ELSE scan_dnsmasq(d, o, h4, h6)

convert_config(d, o, h4, h6, dv4, dv6) ==
    IF o.backend = "Kea" THEN convert_kea(d, o, h4, h6, dv4, dv6)
    ELSE convert_dnsmasq(d, o, h4, h6, dv4, dv6)

-----------------------------------------------------------------------------
(* The input documents *)

Iface(name, ip4, len4, ip6, len6) ==
    [name |-> name, ip4 |-> ip4, len4 |-> len4, ip6 |-> ip6, len6 |-> len6]

(* lan and opt1 on disjoint networks *)
LayoutDisjoint == <<Iface("lan", <<1>>, 1, <<5>>, 1), Iface("opt1", <<2>>, 1, <<6>>, 1)>>

(* lan and opt1 with addresses in the same network *)
LayoutShared == <<Iface("lan", <<0>>, 1, <<4>>, 1), Iface("opt1", <<1>>, 1, <<5>>, 1)>>

(* the network of opt1 nested in that of lan *)
LayoutNested == <<Iface("lan", <<0>>, 0, <<4>>, 0), Iface("opt1", <<2>>, 1, <<6>>, 1)>>

(* opt1 takes its addresses from DHCP and has no CIDR *)
LayoutDhcp == <<Iface("lan", <<0>>, 1, <<4>>, 1), Iface("opt1", <<>>, 0, <<>>, 0)>>

Map4(iface, mac, ip, cid) == [iface |-> iface, mac |-> mac, ipaddr |-> ip, cid |-> cid]

Map6(iface, duid, ip) == [iface |-> iface, duid |-> duid, ipaddr |-> ip]

Range(iface, from, to) == [iface |-> iface, from |-> from, to |-> to]

(* one mapping, on every interface name and on both sides of the networks *)
SingleMaps ==
    {[m4 |-> <<Map4(i, "m1", a, "")>>, m6 |-> <<>>] : i \in {"lan", "opt1", "LAN"}, a \in {0, 2}}
    \cup {[m4 |-> <<>>, m6 |-> <<Map6(i, "i1", a)>>] : i \in {"lan", "opt1"}, a \in {4, 6}}

(* two mappings that may share an address, a hardware address or an id *)
PairMaps ==
    {[m4 |-> <<Map4("lan", "m1", 0, ""), Map4(i, m, a, c)>>, m6 |-> <<>>] :
        i \in {"lan", "opt1"}, m \in {"m1", "m2"}, a \in {0, 1, 2}, c \in {"", "i1"}}
    \cup {[m4 |-> <<>>, m6 |-> <<Map6("lan", "i1", 4), Map6(i, u, a)>>] :
        i \in {"lan", "opt1"}, u \in {"i1", "i2"}, a \in {4, 5, 6}}
    \cup {[m4 |-> <<Map4("lan", "m1", 0, c)>>, m6 |-> <<Map6(i, "i1", a)>>] :
        c \in {"", "i1"}, i \in {"lan", "opt1"}, a \in {4, 6}}

FewMaps ==
    {[m4 |-> <<>>, m6 |-> <<>>],
     [m4 |-> <<Map4("lan", "m1", 0, "")>>, m6 |-> <<>>],
     [m4 |-> <<Map4("opt1", "m1", 2, "")>>, m6 |-> <<Map6("lan", "i1", 4)>>]}

NoRanges == [r4 |-> <<>>, r6 |-> <<>>]

LanRanges == [r4 |-> <<Range("lan", 0, 1)>>, r6 |-> <<Range("lan", 4, 5)>>]

AllRanges ==
    {NoRanges, LanRanges,
     [r4 |-> <<Range("opt1", 2, 3)>>, r6 |-> <<>>],
     [r4 |-> <<Range("lan", 0, 3)>>, r6 |-> <<>>],
     [r4 |-> <<Range("lan", 0, 1), Range("opt1", 2, 3)>>, r6 |-> <<Range("opt1", 6, 7)>>],
     [r4 |-> <<>>, r6 |-> <<Range("lan", 4, 7)>>]}

(* a range on each of two interfaces of one network *)
SharedRanges ==
    [r4 |-> <<Range("lan", 0, 0), Range("opt1", 1, 1)>>,
     r6 |-> <<Range("lan", 4, 4), Range("opt1", 5, 5)>>]

(* the <enable> of the interface nodes of <dhcpd> and <dhcpdv6>: set, or
   not there *)
IscEnable == {"1", "absent"}

(* the source side of a document: interfaces, mappings, ranges and the
   <enable> of the interface nodes *)
Sources ==
    {[ifaces |-> l, maps |-> m, ranges |-> r, enable |-> e] :
        l \in {LayoutDisjoint, LayoutShared, LayoutNested, LayoutDhcp},
        m \in SingleMaps, r \in {NoRanges, LanRanges}, e \in IscEnable}
    \cup {[ifaces |-> LayoutDisjoint, maps |-> m, ranges |-> r, enable |-> e] :
        m \in PairMaps, r \in {NoRanges, LanRanges}, e \in IscEnable}
    \cup {[ifaces |-> l, maps |-> m, ranges |-> r, enable |-> e] :
        l \in {LayoutDisjoint, LayoutNested, LayoutDhcp}, m \in FewMaps, r \in AllRanges,
        e \in IscEnable}
    \cup {[ifaces |-> LayoutShared, maps |-> m, ranges |-> SharedRanges, enable |-> e] :
        m \in FewMaps, e \in IscEnable}

(* the interface nodes of <dhcpd> or <dhcpdv6>: one for each interface that
   has a static mapping or a range, in the order of the interfaces *)
RECURSIVE IscNodes(_, _, _)
IscNodes(ifaces, used, enable) ==
    IF ifaces = <<>> THEN <<>>
    ELSE (IF \E u \in used : eq_ignore_ascii_case(u, Head(ifaces).name)
          THEN <<[name |-> Head(ifaces).name, enable |-> enable]>> ELSE <<>>)
         \o IscNodes(Tail(ifaces), used, enable)

Cidr(net, len) == [net |-> net, len |-> len]

Subnet(uuid, net, len) == [uuid |-> uuid, cidr |-> Cidr(net, len)]

Kea(dhcp, container4, subnets4, direct4, subnets6, res4, res6) ==
    [dhcp4 |-> dhcp, dhcp6 |-> dhcp, container4 |-> container4,
     subnets4 |-> subnets4, direct4 |-> direct4, subnets6 |-> subnets6,
     res4 |-> res4, res6 |-> res6, ifaces4 |-> <<>>, ifaces6 |-> <<>>,
     enabled4 |-> FALSE, enabled6 |-> FALSE]

NoKea == Kea(FALSE, FALSE, <<>>, <<>>, <<>>, <<>>, <<>>)

(* the Kea sections a document may hold: none, one without subnets, subnets
   for both networks, the same with reservations, nested subnets, subnets
   for lan's networks alone with reservations, and the schema that keeps
   <subnet4> directly under <dhcp4> *)
KeaTargets ==
    {NoKea,
     Kea(TRUE, TRUE, <<>>, <<>>, <<>>, <<>>, <<>>),
     Kea(TRUE, TRUE, <<Subnet(1, 0, 1), Subnet(2, 2, 1)>>, <<>>,
         <<Subnet(3, 4, 1), Subnet(4, 6, 1)>>, <<>>, <<>>),
     Kea(TRUE, TRUE, <<Subnet(1, 0, 1), Subnet(2, 2, 1)>>, <<>>,
         <<Subnet(3, 4, 1), Subnet(4, 6, 1)>>,
         <<[subnet |-> 1, ip |-> 0, hw |-> "m2"]>>,
         <<[subnet |-> 3, ip |-> 5, duid |-> "i1"]>>),
     Kea(TRUE, TRUE, <<Subnet(1, 0, 0), Subnet(2, 0, 1)>>, <<>>,
         <<Subnet(3, 4, 0)>>, <<>>, <<>>),
     Kea(TRUE, TRUE, <<Subnet(1, 0, 1)>>, <<>>, <<Subnet(3, 4, 1)>>,
         <<[subnet |-> 1, ip |-> 0, hw |-> "m2"]>>,
         <<[subnet |-> 3, ip |-> 5, duid |-> "i1"]>>),
     Kea(TRUE, FALSE, <<>>, <<Subnet(1, 0, 1), Subnet(2, 2, 1)>>,
         <<Subnet(3, 4, 1), Subnet(4, 6, 1)>>, <<>>, <<>>)}

Dnsmasq(present, hosts, ranges) ==
    [present |-> present, hosts |-> hosts, ranges |-> ranges, ifaces |-> <<>>, enabled |-> FALSE]

NoDnsmasq == Dnsmasq(FALSE, <<>>, <<>>)

(* the dnsmasq sections a document may hold: none, an empty one, one with a
   DHCPv4 host, one with a host known by its client id, one with the range
   the lan ranges give rise to, and one with a host and a range *)
DnsmasqTargets ==
    {NoDnsmasq,
     Dnsmasq(TRUE, <<>>, <<>>),
     Dnsmasq(TRUE, <<[ip |-> 0, hwaddr |-> "m2", client_id |-> ""]>>, <<>>),
     Dnsmasq(TRUE, <<[ip |-> 3, hwaddr |-> "", client_id |-> "i1"]>>, <<>>),
     Dnsmasq(TRUE, <<>>, <<create_dnsmasq_range_element_v4("lan", 0, 1, prefix_to_netmask(1))>>),
     Dnsmasq(TRUE, <<[ip |-> 1, hwaddr |-> "m1", client_id |-> ""]>>,
             <<create_dnsmasq_range_element_v4("opt1", 2, 3, prefix_to_netmask(1))>>)}

Document(src, kea, dnsmasq) ==
    [ifaces |-> src.ifaces, maps4 |-> src.maps.m4, maps6 |-> src.maps.m6,
     ranges4 |-> src.ranges.r4, ranges6 |-> src.ranges.r6,
     dhcpd |-> IscNodes(src.ifaces, IfaceNames(src.maps.m4) \cup IfaceNames(src.ranges.r4),
                        src.enable),
     dhcpdv6 |-> IscNodes(src.ifaces, IfaceNames(src.maps.m6) \cup IfaceNames(src.ranges.r6),
                          src.enable),
     kea |-> kea, dnsmasq |-> dnsmasq]

(* MigrationOptions; the command line accepts force_subnets only together
   with create_subnets *)
Options ==
    {o \in [backend : {"Kea", "Dnsmasq"}, fail_if_existing : BOOLEAN,
            create_subnets : BOOLEAN, force_subnets : BOOLEAN, enable_backend : BOOLEAN] :
        o.force_subnets => o.create_subnets}

(* a document holds the section of the backend it is migrated to *)
Documents(backend) ==
    IF backend = "Kea"
    THEN {Document(src, k, NoDnsmasq) : src \in Sources, k \in KeaTargets}
    ELSE {Document(src, NoKea, t) : src \in Sources, t \in DnsmasqTargets}

-----------------------------------------------------------------------------
(* The pipeline: scan_config on the input document, and convert_config run
   again on the document the previous run wrote *)

Init ==
    /\ opts \in Options
    /\ doc \in Documents(opts.backend)
    /\ scan = <<>>
    /\ conv = <<>>
    /\ prev = doc
    /\ written = <<>>
    /\ runs = 0
    /\ fn = <<>>

(* the orders the HashMaps of one call may iterate in *)
DesiredOrders(want, desired) == IF want THEN HashOrders(desired.entries) ELSE {<<>>}

ScanConfig ==
    /\ runs = 0
    /\ scan = <<>>
    /\ \E h4 \in HashOrders(extract_interface_cidrs(doc)),
          h6 \in HashOrders(extract_interface_cidrs_v6(doc)),
          dv4 \in DesiredOrders(opts.create_subnets, desired_subnets_v4(doc)),
          dv6 \in DesiredOrders(opts.create_subnets, desired_subnets_v6(doc)) :
            scan' = <<scan_config(doc, opts, h4, h6, dv4, dv6)>>
    /\ UNCHANGED <<doc, opts, conv, prev, written, runs, fn>>

(* convert_config writing the tree out whatever the conversion answered *)
Write_always(out) ==
    /\ conv' = <<out.stats>>
    /\ written' = <<out.doc>>
    /\ doc' = IF out.stats.err = "" THEN out.doc ELSE doc

(* convert_config's caller writes the converted document out only when the
   conversion succeeded *)
Write(out) ==
    /\ conv' = <<out.stats>>
    /\ written' = IF out.stats.err = "" THEN <<out.doc>> ELSE <<>>
    /\ doc' = IF out.stats.err = "" THEN out.doc ELSE doc

ConvertConfig ==
    /\ runs < MaxRuns
    /\ IF conv = <<>> THEN TRUE ELSE conv[1].err = ""
    /\ \E h4 \in HashOrders(extract_interface_cidrs(doc)),
          h6 \in HashOrders(extract_interface_cidrs_v6(doc)),
          dv4 \in DesiredOrders(opts.create_subnets \/ opts.enable_backend,
                                desired_subnets_v4(doc)),
          dv6 \in DesiredOrders(opts.create_subnets \/ opts.enable_backend,
                                desired_subnets_v6(doc)) :
            Write(convert_config(doc, opts, h4, h6, dv4, dv6))
    /\ prev' = doc
    /\ runs' = runs + 1
    /\ UNCHANGED <<opts, scan, fn>>

Next == ScanConfig \/ ConvertConfig

Spec == Init /\ [][Next]_vars

-----------------------------------------------------------------------------
(* Subnet lookup on its own: every address of a family against every list of
   at most MaxSubnets subnets of that family, identified by their position *)

(* the addresses of the family of an address *)
FamilyOf(a) == IF a \in Addr4 THEN Addr4 ELSE Addr6

Numbered(cidrs) == [i \in 1..Len(cidrs) |-> [uuid |-> i, cidr |-> cidrs[i]]]

CidrsOver(addrs) == {Cidr(n, l) : n \in addrs, l \in PrefixLens}

InitFind ==
    /\ \E a \in Addr4 \cup Addr6, k \in 0..MaxSubnets :
          \E q \in [1..k -> CidrsOver(FamilyOf(a))] :
              fn = [ip |-> a, subnets |-> Numbered(q), out |-> <<>>]
    /\ doc = <<>>
    /\ opts = <<>>
    /\ scan = <<>>
    /\ conv = <<>>
    /\ prev = <<>>
    /\ written = <<>>
    /\ runs = 0

FindSubnet ==
    /\ fn.out = <<>>
    /\ fn' = [fn EXCEPT !.out = <<find_subnet_for_ip(fn.ip, fn.subnets)>>]
    /\ UNCHANGED <<doc, opts, scan, conv, prev, written, runs>>

NextFind == FindSubnet

SpecFind == InitFind /\ [][NextFind]_vars

(* the positions of the subnets that contain the address *)
ContainingSubnets == {i \in 1..Len(fn.subnets) : Contains(fn.subnets[i].cidr, fn.ip)}

(* C4: subnet lookup fails exactly when no subnet contains the address, and
   otherwise returns the identifier of a containing subnet whose prefix length
   is the greatest among the containing subnets and which is declared before
   every other containing subnet of that prefix length *)
C4_MostSpecificFirstDeclared ==
    fn.out # <<>> =>
        IF ContainingSubnets = {}
        THEN fn.out[1].err = "NoMatchingSubnet"
        ELSE /\ fn.out[1].err = ""
             /\ \E i \in ContainingSubnets :
                   /\ fn.out[1].uuid = fn.subnets[i].uuid
                   /\ \A j \in ContainingSubnets :
                         /\ fn.subnets[j].cidr.len <= fn.subnets[i].cidr.len
                         /\ fn.subnets[j].cidr.len = fn.subnets[i].cidr.len => i <= j

(* a lookup answered by the second of three containing subnets: a less
   specific one is declared before it and an equally specific one after it *)
C4_Witness ==
    /\ fn.out # <<>>
    /\ Len(fn.subnets) = 3
    /\ ContainingSubnets = {1, 2, 3}
    /\ fn.subnets[1].cidr.len < fn.subnets[2].cidr.len
    /\ fn.subnets[2].cidr.len = fn.subnets[3].cidr.len
    /\ fn.out[1].err = ""
    /\ fn.out[1].uuid = 2

-----------------------------------------------------------------------------
(* Interface resolution on its own: every address of a family against every
   list of at most MaxIfaces interfaces, in the order the document declares
   them.  extract_interface_cidrs stores network()/prefix, so the CIDRs are
   network addresses; the names are handed out in either alphabetical
   direction. *)

NetworksOver(addrs) == {Cidr(Network(n, l), l) : n \in addrs, l \in PrefixLens}

IfaceNamings == {<<"lan", "opt1", "wan", "opt2">>, <<"wan", "opt1", "lan", "opt2">>}

Named(cidrs, names) == [i \in 1..Len(cidrs) |-> [name |-> names[i], cidr |-> cidrs[i]]]

InitIface ==
    /\ \E a \in Addr4 \cup Addr6, k \in 0..MaxIfaces, n \in IfaceNamings :
          \E q \in [1..k -> NetworksOver(FamilyOf(a))] :
              fn = [ip |-> a, ifaces |-> Named(q, n), out |-> <<>>]
    /\ doc = <<>>
    /\ opts = <<>>
    /\ scan = <<>>
    /\ conv = <<>>
    /\ prev = <<>>
    /\ written = <<>>
    /\ runs = 0

(* the map is built from the declared interfaces and then iterated in
   whatever order the HashMap yields *)
ResolveIface ==
    /\ fn.out = <<>>
    /\ \E h \in HashOrders(SeqToSet(fn.ifaces)) :
          fn' = [fn EXCEPT !.out = <<iface_for_ip(fn.ip, h)>>]
    /\ UNCHANGED <<doc, opts, scan, conv, prev, written, runs>>

NextIface == ResolveIface

SpecIface == InitIface /\ [][NextIface]_vars

(* the positions of the interfaces whose CIDR contains the address *)
ContainingIfaces == {i \in 1..Len(fn.ifaces) : Contains(fn.ifaces[i].cidr, fn.ip)}

(* C5: interface resolution fails exactly when no interface CIDR contains the
   address, and otherwise returns the interface whose CIDR has the greatest
   prefix length among the containing ones and which is declared before every
   other containing interface of that prefix length, whatever the iteration
   order of the map *)
C5_MostSpecificFirstDeclared ==
    fn.out # <<>> =>
        IF ContainingIfaces = {}
        THEN fn.out[1].err = "NoMatchingInterface"
        ELSE /\ fn.out[1].err = ""
             /\ \E i \in ContainingIfaces :
                   /\ fn.out[1].name = fn.ifaces[i].name
                   /\ \A j \in ContainingIfaces :
                         /\ fn.ifaces[j].cidr.len <= fn.ifaces[i].cidr.len
                         /\ fn.ifaces[j].cidr.len = fn.ifaces[i].cidr.len => i <= j

-----------------------------------------------------------------------------
(* What the pipeline's claims speak of *)

(* the document the latest operation read: the input while runs <= 1 *)
Input == prev

(* the reservation or host records of a family in a document *)
Records4(d) ==
    IF opts.backend = "Kea" THEN d.kea.res4
    ELSE SelectSeqBy(d.dnsmasq.hosts, {h \in SeqToSet(d.dnsmasq.hosts) : h.ip \in Addr4})

Records6(d) ==
    IF opts.backend = "Kea" THEN d.kea.res6
    ELSE SelectSeqBy(d.dnsmasq.hosts, {h \in SeqToSet(d.dnsmasq.hosts) : h.ip \in Addr6})

(* the number of records the latest convert_config appended: a failed run
   writes nothing *)
Appended4 == IF written = <<>> THEN 0 ELSE Len(Records4(written[1])) - Len(Records4(prev))

Appended6 == IF written = <<>> THEN 0 ELSE Len(Records6(written[1])) - Len(Records6(prev))

Scanned == scan # <<>>

ScanOk == scan # <<>> /\ scan[1].err = ""

ConvertOk == conv # <<>> /\ conv[1].err = ""

(* C1: the counts scan_config reports for the input are the numbers of records
   convert_config appends when run on that input with the same options *)
C1_ScanCountIsAppended ==
    (runs = 1 /\ ScanOk) =>
        /\ scan[1].to_create = Appended4
        /\ scan[1].to_create_v6 = Appended6

(* C2: a convert_config run on the document an earlier successful run wrote
   appends no record of either family: when it succeeds it skips every
   mapping and leaves the records as they were, and when it fails it writes
   nothing *)
C2_SecondConvertAppendsNothing ==
    runs >= 2 =>
        IF conv[1].err = ""
        THEN /\ conv[1].to_create = 0
             /\ conv[1].to_create_v6 = 0
             /\ conv[1].skipped = Len(prev.maps4)
             /\ conv[1].skipped_v6 = Len(prev.maps6)
             /\ Records4(written[1]) = Records4(prev)
             /\ Records6(written[1]) = Records6(prev)
        ELSE written = <<>>

(* a second run that succeeded and skipped a mapping of each family, whose
   records the first run had appended *)
C2_Witness ==
    /\ runs = 2
    /\ ConvertOk
    /\ conv[1].skipped >= 1
    /\ conv[1].skipped_v6 >= 1
    /\ \E i \in 1..Len(Records4(prev)) : Records4(prev)[i].ip = prev.maps4[1].ipaddr
    /\ \E i \in 1..Len(Records6(prev)) : Records6(prev)[i].ip = prev.maps6[1].ipaddr

(* a mapping whose address no CIDR of the interface it is declared under
   contains; interface names are matched without regard to case *)
Misplaced(m, iface_cidrs) ==
    \A e \in iface_cidrs : eq_ignore_ascii_case(e.name, m.iface) => ~Contains(e.cidr, m.ipaddr)

HasMisplaced(d) ==
    \/ \E i \in 1..Len(d.maps4) : Misplaced(d.maps4[i], extract_interface_cidrs(d))
    \/ \E i \in 1..Len(d.maps6) : Misplaced(d.maps6[i], extract_interface_cidrs_v6(d))

(* the errors of the checks that scan_config makes before it validates the
   mappings' interfaces: scan_kea checks the desired subnets and the backend
   first, scan_dnsmasq the desired ranges, the backend and fail_if_existing *)
ScanBeforeValidation ==
    IF opts.backend = "Kea"
    THEN {"NoInterfaceCidr", "RangeNotInInterfaceSubnet", "BackendNotConfigured",
          "BackendV6NotConfigured", "NoBackendSubnets", "NoBackendSubnetsV6",
          "NoRangesForSubnets"}
    ELSE {"NoInterfaceCidr", "RangeNotInInterfaceSubnet", "BackendNotConfigured",
          "ExistingReservations"}

(* the same for convert_config: convert_kea builds and applies the desired
   subnets first, convert_dnsmasq checks what scan_dnsmasq checks *)
ConvertBeforeValidation ==
    IF opts.backend = "Kea"
    THEN {"NoInterfaceCidr", "RangeNotInInterfaceSubnet", "KeaNotConfigured"}
    ELSE {"NoInterfaceCidr", "RangeNotInInterfaceSubnet", "BackendNotConfigured",
          "ExistingReservations"}

(* C3 as claimed: with a misplaced mapping in the input, scan_config and
   convert_config both fail with InterfaceMismatch and nothing is written *)
C3_FailsWithInterfaceMismatch ==
    (runs <= 1 /\ HasMisplaced(Input)) =>
        /\ Scanned => scan[1].err = "InterfaceMismatch"
        /\ runs = 1 => (conv[1].err = "InterfaceMismatch" /\ written = <<>>)

(* C3: with a misplaced mapping in the input, scan_config and convert_config
   both fail and nothing is written; the error is InterfaceMismatch or, when
   no interface contains the address, NoMatchingInterface, unless a check
   made before the validation has failed already *)
C3_MisplacedMappingFails ==
    (runs <= 1 /\ HasMisplaced(Input)) =>
        /\ Scanned =>
              scan[1].err \in {"InterfaceMismatch", "NoMatchingInterface"} \cup ScanBeforeValidation
        /\ runs = 1 =>
              /\ conv[1].err \in {"InterfaceMismatch", "NoMatchingInterface"} \cup ConvertBeforeValidation
              /\ written = <<>>

(* a mapping declared under opt1 with an address of lan's network: both
   operations fail with InterfaceMismatch *)
C3_Witness ==
    /\ runs = 1
    /\ Scanned
    /\ HasMisplaced(Input)
    /\ Input.maps4 # <<>>
    /\ iface_for_ip(Input.maps4[1].ipaddr,
                    CidrEntries(Input.ifaces, FALSE)).name = "lan"
    /\ Input.maps4[1].iface = "opt1"
    /\ scan[1].err = "InterfaceMismatch"
    /\ conv[1].err = "InterfaceMismatch"
    /\ written = <<>>

(* the records the latest convert_config appended to the reservations of a
   family, in the order of their appending *)
NewRecords(before, after) == SubSeq(after, Len(before) + 1, Len(after))

(* the positions of the v4 mappings that were the first to bring an address
   no pre-existing reservation holds *)
FirstOfAddress(maps, existing) ==
    {i \in 1..Len(maps) :
        /\ maps[i].ipaddr \notin existing
        /\ \A j \in 1..(i - 1) : maps[j].ipaddr # maps[i].ipaddr}

(* C6: on Kea a v4 mapping is skipped exactly when its address is that of a
   pre-existing reservation or of a mapping earlier in the run; the appended
   reservations are those of the first mapping of each address not yet
   reserved, no two of them share an address, and scan counts the same *)
C6_V4AddressDedup ==
    (opts.backend = "Kea" /\ runs <= 1) =>
        LET maps == Input.maps4
            existing == {Input.kea.res4[k].ip : k \in 1..Len(Input.kea.res4)}
            acc == FirstOfAddress(maps, existing)
        IN  /\ ScanOk =>
                  /\ scan[1].to_create = Cardinality(acc)
                  /\ scan[1].skipped = Len(maps) - Cardinality(acc)
            /\ (runs = 1 /\ ConvertOk) =>
                  LET new == NewRecords(Input.kea.res4, written[1].kea.res4)
                  IN  /\ conv[1].to_create = Cardinality(acc)
                      /\ conv[1].skipped = Len(maps) - Cardinality(acc)
                      /\ Len(new) = Cardinality(acc)
                      /\ {new[k].ip : k \in 1..Len(new)} = {maps[i].ipaddr : i \in acc}
                      /\ \A k, l \in 1..Len(new) : k # l => new[k].ip # new[l].ip
                      /\ \A k \in 1..Len(new) : new[k].ip \notin existing

(* two v4 mappings of one address that no reservation held: the first is
   accepted and the second skipped *)
C6_Witness ==
    /\ opts.backend = "Kea"
    /\ runs = 1
    /\ ConvertOk
    /\ Len(Input.maps4) = 2
    /\ Input.maps4[1].ipaddr = Input.maps4[2].ipaddr
    /\ conv[1].to_create = 1
    /\ conv[1].skipped = 1
    /\ Len(written[1].kea.res4) = Len(Input.kea.res4) + 1

(* the positions of the v6 mappings accepted among the first n: a mapping is
   rejected when its address or its DUID is that of a pre-existing
   reservation or of a mapping accepted before it *)
RECURSIVE AcceptedV6(_, _, _, _)
AcceptedV6(maps, ips, duids, n) ==
    IF n = 0 THEN {}
    ELSE LET earlier == AcceptedV6(maps, ips, duids, n - 1)
         IN  IF \/ maps[n].ipaddr \in ips \cup {maps[j].ipaddr : j \in earlier}
                \/ maps[n].duid \in duids \cup {maps[j].duid : j \in earlier}
             THEN earlier
             ELSE earlier \cup {n}

(* C7: on Kea a v6 mapping is skipped, and no reservation appended for it,
   when its address or its DUID is that of a pre-existing v6 reservation or of
   a v6 mapping accepted earlier in the run; either match alone suffices *)
C7_V6AddressOrDuidDedup ==
    (opts.backend = "Kea" /\ runs <= 1) =>
        LET maps == Input.maps6
            ips == {Input.kea.res6[k].ip : k \in 1..Len(Input.kea.res6)}
            duids == {Input.kea.res6[k].duid : k \in 1..Len(Input.kea.res6)}
            acc == AcceptedV6(maps, ips, duids, Len(maps))
        IN  /\ ScanOk =>
                  /\ scan[1].to_create_v6 = Cardinality(acc)
                  /\ scan[1].skipped_v6 = Len(maps) - Cardinality(acc)
            /\ (runs = 1 /\ ConvertOk) =>
                  LET new == NewRecords(Input.kea.res6, written[1].kea.res6)
                  IN  /\ conv[1].to_create_v6 = Cardinality(acc)
                      /\ conv[1].skipped_v6 = Len(maps) - Cardinality(acc)
                      /\ Len(new) = Cardinality(acc)
                      /\ {<<new[k].ip, new[k].duid>> : k \in 1..Len(new)}
                            = {<<maps[i].ipaddr, maps[i].duid>> : i \in acc}
                      /\ \A k \in 1..Len(new) : new[k].ip \notin ips /\ new[k].duid \notin duids
                      /\ \A k, l \in 1..Len(new) :
                            k # l => (new[k].ip # new[l].ip /\ new[k].duid # new[l].duid)

(* a v6 mapping skipped for its DUID alone: its address is new, its DUID that
   of the mapping accepted before it *)
C7_Witness ==
    /\ opts.backend = "Kea"
    /\ runs = 1
    /\ ConvertOk
    /\ Len(Input.maps6) = 2
    /\ Input.maps6[1].duid = Input.maps6[2].duid
    /\ Input.maps6[1].ipaddr # Input.maps6[2].ipaddr
    /\ Input.kea.res6 = <<>>
    /\ conv[1].to_create_v6 = 1
    /\ conv[1].skipped_v6 = 1
    /\ Len(written[1].kea.res6) = 1

(* the host records the mappings of a document ask for, in the order in
   which convert_dnsmasq goes through them: the v4 mappings, then the v6 *)
Candidates(d) ==
    [i \in 1..(Len(d.maps4) + Len(d.maps6)) |->
        IF i <= Len(d.maps4)
        THEN [ip |-> d.maps4[i].ipaddr, hwaddr |-> d.maps4[i].mac,
              client_id |-> d.maps4[i].cid, v6 |-> FALSE]
        ELSE [ip |-> d.maps6[i - Len(d.maps4)].ipaddr, hwaddr |-> "",
              client_id |-> d.maps6[i - Len(d.maps4)].duid, v6 |-> TRUE]]

(* the positions of the candidates accepted among the first n: a candidate is
   rejected when its address, its hardware address or its client id is that
   of a pre-existing host or of a candidate accepted before it. The client id
   of a v4 mapping counts only where cid_of_v4 says so *)
RECURSIVE AcceptedHosts(_, _, _, _)
AcceptedHosts(cands, hosts, n, cid_of_v4) ==
    IF n = 0 THEN {}
    ELSE LET earlier == AcceptedHosts(cands, hosts, n - 1, cid_of_v4)
             c == cands[n]
             ips == {h.ip : h \in hosts} \cup {cands[j].ip : j \in earlier}
             macs == {h.hwaddr : h \in hosts} \cup {cands[j].hwaddr : j \in earlier}
             cids == {h.client_id : h \in hosts}
                     \cup {cands[j].client_id :
                              j \in {k \in earlier : cid_of_v4 \/ cands[k].v6}}
         IN  IF \/ c.ip \in ips
                \/ c.hwaddr # "" /\ c.hwaddr \in macs
                \/ (cid_of_v4 \/ c.v6) /\ c.client_id # "" /\ c.client_id \in cids
             THEN earlier
             ELSE earlier \cup {n}

(* what scan_config counts and convert_config appends on dnsmasq are the
   candidates of the positions acc *)
HostsAre(acc) ==
    LET cands == Candidates(Input)
        acc4 == {i \in acc : ~cands[i].v6}
        acc6 == {i \in acc : cands[i].v6}
    IN  /\ ScanOk =>
              /\ scan[1].to_create = Cardinality(acc4)
              /\ scan[1].skipped = Len(Input.maps4) - Cardinality(acc4)
              /\ scan[1].to_create_v6 = Cardinality(acc6)
              /\ scan[1].skipped_v6 = Len(Input.maps6) - Cardinality(acc6)
        /\ (runs = 1 /\ ConvertOk) =>
              LET new == NewRecords(Input.dnsmasq.hosts, written[1].dnsmasq.hosts)
              IN  /\ conv[1].to_create = Cardinality(acc4)
                  /\ conv[1].skipped = Len(Input.maps4) - Cardinality(acc4)
                  /\ conv[1].to_create_v6 = Cardinality(acc6)
                  /\ conv[1].skipped_v6 = Len(Input.maps6) - Cardinality(acc6)
                  /\ Len(new) = Cardinality(acc)
                  /\ {<<new[k].ip, new[k].hwaddr, new[k].client_id>> : k \in 1..Len(new)}
                        = {<<cands[i].ip, cands[i].hwaddr, cands[i].client_id>> : i \in acc}

(* C8 as claimed: on dnsmasq a mapping of either family is skipped, and no
   host appended for it, when its address, its hardware address or its
   client id is that of a pre-existing host or of a mapping accepted earlier *)
C8_AddressHwaddrOrClientId ==
    (opts.backend = "Dnsmasq" /\ runs <= 1) =>
        HostsAre(AcceptedHosts(Candidates(Input), SeqToSet(Input.dnsmasq.hosts),
                               Len(Input.maps4) + Len(Input.maps6), TRUE))

(* C8: on dnsmasq a v4 mapping is skipped when its address or its hardware
   address is that of a pre-existing host or of a mapping accepted earlier,
   a v6 mapping when its address or its DUID is that or the client id of one;
   the client id of a v4 mapping is neither compared nor remembered *)
C8_AddressOrHwaddrV4ClientIdV6 ==
    (opts.backend = "Dnsmasq" /\ runs <= 1) =>
        HostsAre(AcceptedHosts(Candidates(Input), SeqToSet(Input.dnsmasq.hosts),
                               Len(Input.maps4) + Len(Input.maps6), FALSE))

(* a v4 mapping skipped for its hardware address alone: its address is new,
   its hardware address that of the mapping accepted before it *)
C8_Witness ==
    /\ opts.backend = "Dnsmasq"
    /\ runs = 1
    /\ ConvertOk
    /\ Len(Input.maps4) = 2
    /\ Input.maps4[1].mac = Input.maps4[2].mac
    /\ Input.maps4[1].ipaddr # Input.maps4[2].ipaddr
    /\ Input.dnsmasq.hosts = <<>>
    /\ conv[1].to_create = 1
    /\ conv[1].skipped = 1
    /\ Len(written[1].dnsmasq.hosts) = 1

(* the target holds a reservation or host record *)
HasRecords(d) ==
    IF opts.backend = "Kea" THEN d.kea.res4 # <<>> \/ d.kea.res6 # <<>>
    ELSE d.dnsmasq.hosts # <<>>

(* a subnet of the target has the CIDR of a desired subnet *)
SubnetCollides(d) ==
    \/ \E e \in desired_subnets_v4(d).entries :
          \E i \in 1..Len(extract_kea_subnets(d)) : extract_kea_subnets(d)[i].cidr = e.cidr
    \/ \E e \in desired_subnets_v6(d).entries :
          \E i \in 1..Len(extract_kea_subnets_v6(d)) : extract_kea_subnets_v6(d)[i].cidr = e.cidr

(* a range of the target has the key of a range of a desired subnet *)
RangeCollides(d) ==
    \/ \E e \in desired_subnets_v4(d).entries : \E i \in 1..Len(e.ranges) :
          range_key(e.iface, e.ranges[i].from, e.ranges[i].to, -1,
                    prefix_to_netmask(e.cidr.len)) \in extract_existing_dnsmasq_ranges(d)
    \/ \E e \in desired_subnets_v6(d).entries : \E i \in 1..Len(e.ranges) :
          range_key(e.iface, e.ranges[i].from, e.ranges[i].to, e.cidr.len, -1)
              \in extract_existing_dnsmasq_ranges(d)

Collides(d) == IF opts.backend = "Kea" THEN SubnetCollides(d) ELSE RangeCollides(d)

(* C9: with fail_if_existing set, a target that holds a reservation or host
   record, or with create_subnets a subnet or range colliding with a desired
   one, makes scan_config and convert_config fail, and nothing is written *)
C9_FailIfExistingAborts ==
    (/\ runs <= 1
     /\ opts.fail_if_existing
     /\ HasRecords(Input) \/ (opts.create_subnets /\ Collides(Input))) =>
        /\ Scanned => scan[1].err # ""
        /\ runs = 1 => (conv[1].err # "" /\ written = <<>>)

(* a range under an interface that has no CIDR, or with an end outside the
   CIDR of its interface *)
BadRange(ranges, iface_cidrs) ==
    \E i \in 1..Len(ranges) :
        \/ CidrOf(iface_cidrs, ranges[i].iface) = {}
        \/ \E c \in CidrOf(iface_cidrs, ranges[i].iface) :
              ~Contains(c, ranges[i].from) \/ ~Contains(c, ranges[i].to)

HasBadRange(d) ==
    \/ BadRange(extract_isc_ranges(d), extract_interface_cidrs(d))
    \/ BadRange(extract_isc_ranges_v6(d), extract_interface_cidrs_v6(d))

(* C10: with create_subnets or enable_backend set, a source range under an
   interface without a CIDR, or with an end outside its interface's CIDR,
   makes scan_config and convert_config fail, and nothing is written *)
C10_BadRangeFails ==
    (/\ runs <= 1
     /\ opts.create_subnets \/ opts.enable_backend
     /\ HasBadRange(Input)) =>
        /\ Scanned => scan[1].err # ""
        /\ runs = 1 => (conv[1].err # "" /\ written = <<>>)

RangeErrors == {"NoInterfaceCidr", "RangeNotInInterfaceSubnet"}

ValidationErrors == {"InterfaceMismatch", "NoMatchingInterface"}

(* the errors that convert_kea can raise before its backend-presence check:
   the desired subnets are built under create_subnets or enable_backend,
   applied under create_subnets, and the mappings' interfaces validated *)
BeforeConvertKeaCheck ==
    ValidationErrors
    \cup (IF opts.create_subnets \/ opts.enable_backend THEN RangeErrors ELSE {})
    \cup (IF opts.create_subnets THEN {"KeaNotConfigured"} ELSE {})

(* the errors that scan_kea can raise before its backend-presence check *)
BeforeScanKeaCheck == IF opts.create_subnets THEN RangeErrors ELSE {}

(* the DHCPv4 presence check of Kea lets the document through *)
V4CheckPasses(d) ==
    \/ d.maps4 = <<>>
    \/ extract_kea_subnets(d) # <<>>
    \/ opts.create_subnets /\ has_kea_dhcp4(d)

(* C11 as claimed: a document without the section of the chosen backend fails
   scan_config and convert_config with BackendNotConfigured or
   BackendV6NotConfigured, and one whose Kea section holds no subnet fails,
   without create_subnets, with NoBackendSubnets or NoBackendSubnetsV6 *)
C11_BackendPresence ==
    runs <= 1 =>
        /\ (opts.backend = "Kea" /\ ~has_kea_dhcp4(Input) /\ ~has_kea_dhcp6(Input)) =>
              /\ Scanned => scan[1].err \in {"BackendNotConfigured", "BackendV6NotConfigured"}
              /\ runs = 1 => conv[1].err \in {"BackendNotConfigured", "BackendV6NotConfigured"}
        /\ (opts.backend = "Dnsmasq" /\ ~has_dnsmasq(Input)) =>
              /\ Scanned => scan[1].err \in {"BackendNotConfigured", "BackendV6NotConfigured"}
              /\ runs = 1 => conv[1].err \in {"BackendNotConfigured", "BackendV6NotConfigured"}
        /\ (/\ opts.backend = "Kea" /\ ~opts.create_subnets
            /\ has_kea_dhcp4(Input) /\ has_kea_dhcp6(Input)
            /\ extract_kea_subnets(Input) = <<>> /\ extract_kea_subnets_v6(Input) = <<>>) =>
              /\ Scanned => scan[1].err \in {"NoBackendSubnets", "NoBackendSubnetsV6"}
              /\ runs = 1 => conv[1].err \in {"NoBackendSubnets", "NoBackendSubnetsV6"}

(* what a family's presence check of Kea answers for a document that has
   mappings of the family and no target subnet of it *)
KeaPresenceError(has_dhcp, v6) ==
    IF ~has_dhcp THEN (IF v6 THEN "BackendV6NotConfigured" ELSE "BackendNotConfigured")
    ELSE (IF v6 THEN "NoBackendSubnetsV6" ELSE "NoBackendSubnets")

(* C11: on Kea, a document with mappings of a family and no target subnet of
   it fails with BackendNotConfigured (v6: BackendV6NotConfigured) when the
   family's section is absent and, without create_subnets, with
   NoBackendSubnets (v6: NoBackendSubnetsV6) when it is present, unless an
   earlier check fails first; the v6 check follows the v4 one. On dnsmasq a
   document with mappings and no dnsmasq section fails with
   BackendNotConfigured for either family, unless a desired range is bad.
   A document without mappings is not checked *)
C11_PresenceCheckedForMappings ==
    runs <= 1 =>
        /\ (/\ opts.backend = "Kea" /\ Input.maps4 # <<>> /\ extract_kea_subnets(Input) = <<>>
            /\ ~has_kea_dhcp4(Input) \/ ~opts.create_subnets) =>
              /\ Scanned => scan[1].err \in {KeaPresenceError(has_kea_dhcp4(Input), FALSE)}
                                             \cup BeforeScanKeaCheck
              /\ runs = 1 => conv[1].err \in {KeaPresenceError(has_kea_dhcp4(Input), FALSE)}
                                              \cup BeforeConvertKeaCheck
        /\ (/\ opts.backend = "Kea" /\ Input.maps6 # <<>> /\ extract_kea_subnets_v6(Input) = <<>>
            /\ ~has_kea_dhcp6(Input) \/ ~opts.create_subnets
            /\ V4CheckPasses(Input)) =>
              /\ Scanned => scan[1].err \in {KeaPresenceError(has_kea_dhcp6(Input), TRUE)}
                                             \cup BeforeScanKeaCheck
                                             \cup {"NoRangesForSubnets"}
              /\ runs = 1 => conv[1].err \in {KeaPresenceError(has_kea_dhcp6(Input), TRUE)}
                                              \cup BeforeConvertKeaCheck
                                              \cup {"NoRangesForSubnets"}
        /\ (/\ opts.backend = "Dnsmasq" /\ ~has_dnsmasq(Input)
            /\ Input.maps4 # <<>> \/ Input.maps6 # <<>>) =>
              /\ Scanned => scan[1].err \in {"BackendNotConfigured"} \cup BeforeScanKeaCheck
              /\ runs = 1 => conv[1].err \in {"BackendNotConfigured"}
                    \cup (IF opts.create_subnets \/ opts.enable_backend THEN RangeErrors ELSE {})
        /\ (Input.maps4 = <<>> /\ Input.maps6 = <<>> /\ ~opts.create_subnets
            /\ ~opts.enable_backend /\ ~opts.fail_if_existing) =>
              /\ Scanned => scan[1].err = ""
              /\ runs = 1 => conv[1].err = ""

(* a Kea section without subnets and a document with a v4 mapping: both
   operations answer NoBackendSubnets *)
C11_Witness ==
    /\ runs = 1
    /\ Scanned
    /\ opts.backend = "Kea"
    /\ Input.maps4 # <<>>
    /\ has_kea_dhcp4(Input)
    /\ extract_kea_subnets(Input) = <<>>
    /\ scan[1].err = "NoBackendSubnets"
    /\ conv[1].err = "NoBackendSubnets"

(* the CIDRs of the target subnets of a family, counting those that
   create_subnets will create *)
TargetCidrs(d, v6) ==
    Cidrs(IF v6 THEN extract_kea_subnets_v6(d) ELSE extract_kea_subnets(d))
    \cup (IF opts.create_subnets
          THEN {e.cidr : e \in (IF v6 THEN desired_subnets_v6(d) ELSE desired_subnets_v4(d)).entries}
          ELSE {})

Unhoused(addr, d, v6) == \A c \in TargetCidrs(d, v6) : ~Contains(c, addr)

(* every error of scan_kea and convert_kea that is raised before the loops
   over the mappings *)
BeforeKeaLoops ==
    RangeErrors \cup ValidationErrors
    \cup {"BackendNotConfigured", "BackendV6NotConfigured", "NoBackendSubnets",
          "NoBackendSubnetsV6", "NoRangesForSubnets", "KeaNotConfigured",
          "ExistingReservations"}

FailsForSubnet ==
    /\ Scanned => scan[1].err \in {"NoMatchingSubnet"} \cup BeforeKeaLoops
    /\ runs = 1 => (conv[1].err \in {"NoMatchingSubnet"} \cup BeforeKeaLoops /\ written = <<>>)

(* C12 as claimed: on Kea a mapping whose address no target subnet contains
   makes scan_config and convert_config fail with NoMatchingSubnet, its
   subnet being resolved before it is checked for a duplicate *)
C12_UnhousedMappingFails ==
    (/\ opts.backend = "Kea" /\ runs <= 1
     /\ \/ \E i \in 1..Len(Input.maps4) : Unhoused(Input.maps4[i].ipaddr, Input, FALSE)
        \/ \E i \in 1..Len(Input.maps6) : Unhoused(Input.maps6[i].ipaddr, Input, TRUE)) =>
        FailsForSubnet

(* C12: on Kea a mapping whose address no target subnet contains, and which
   is not a duplicate (its address, for v6 also its DUID, is not that of a
   pre-existing reservation nor of an earlier mapping), makes scan_config and
   convert_config fail with NoMatchingSubnet unless an earlier check fails;
   the duplicate check precedes the subnet resolution, so a duplicate is
   skipped whether or not a subnet contains its address *)
C12_UnhousedNewMappingFails ==
    (/\ opts.backend = "Kea" /\ runs <= 1
     /\ \/ \E i \in 1..Len(Input.maps4) :
              /\ Unhoused(Input.maps4[i].ipaddr, Input, FALSE)
              /\ Input.maps4[i].ipaddr \notin extract_existing_reservation_ips(Input)
        \/ \E i \in 1..Len(Input.maps6) :
              /\ Unhoused(Input.maps6[i].ipaddr, Input, TRUE)
              /\ Input.maps6[i].ipaddr \notin extract_existing_reservation_ips_v6(Input)
              /\ Input.maps6[i].duid \notin extract_existing_reservation_duids_v6(Input)
              /\ \A j \in 1..(i - 1) : Input.maps6[j].duid # Input.maps6[i].duid) =>
        FailsForSubnet

(* a mapping outside every target subnet: both operations answer
   NoMatchingSubnet *)
C12_Witness ==
    /\ opts.backend = "Kea"
    /\ runs = 1
    /\ Scanned
    /\ \E i \in 1..Len(Input.maps4) : Unhoused(Input.maps4[i].ipaddr, Input, FALSE)
    /\ scan[1].err = "NoMatchingSubnet"
    /\ conv[1].err = "NoMatchingSubnet"

(* C13: the interface validation precedes the backend-presence check, the
   fail_if_existing check, the subnet merge and the work on the mappings, so
   a document with a misplaced mapping fails scan_config and convert_config
   on the interface check, or on the desired ranges built before it, and on
   nothing later *)
C13_ValidationBeforeLaterChecks ==
    (runs <= 1 /\ HasMisplaced(Input)) =>
        /\ Scanned => scan[1].err \in ValidationErrors \cup RangeErrors
        /\ runs = 1 => conv[1].err \in ValidationErrors \cup RangeErrors

(* C14: a convert_config that fails writes nothing: the tree is serialized
   only after the whole conversion has succeeded, so what was merged or
   appended before the failure is not seen by the caller, whose document is
   as it was *)
C14_FailedConvertWritesNothing ==
    (runs >= 1 /\ conv[1].err # "") => (written = <<>> /\ doc = prev)

(* a convert_config on Kea that had merged a desired subnet into the tree
   when a mapping's subnet lookup failed *)
C14_Witness ==
    /\ runs = 1
    /\ opts.backend = "Kea"
    /\ opts.create_subnets
    /\ \E e \in desired_subnets_v4(Input).entries :
          e.cidr \notin Cidrs(extract_kea_subnets(Input))
    /\ conv[1].err = "NoMatchingSubnet"
    /\ written = <<>>
    /\ doc = Input

(* the <subnet4> elements of a document, under <subnets> or directly under
   <dhcp4>, and its <subnet6> elements *)
KeaEntries(d, v6) == IF v6 THEN d.kea.subnets6 ELSE d.kea.subnets4 \o d.kea.direct4

WithCidr(subnets, cidr) == SelectSeqBy(subnets, {x \in SeqToSet(subnets) : x.cidr = cidr})

WithKey(ranges, key) == SelectSeqBy(ranges, {x \in SeqToSet(ranges) : KeyOf(x) = key})

DesiredOf(d, v6) == IF v6 THEN desired_subnets_v6(d).entries ELSE desired_subnets_v4(d).entries

ExistingCidrs(d, v6) ==
    Cidrs(IF v6 THEN extract_kea_subnets_v6(d) ELSE extract_kea_subnets(d))

(* the <dhcp_ranges> element convert_dnsmasq builds for a desired range *)
DesiredRangeElement(e, r, v6) ==
    IF v6 THEN create_dnsmasq_range_element_v6(e.iface, r.from, r.to, e.cidr.len)
    ELSE create_dnsmasq_range_element_v4(e.iface, r.from, r.to, prefix_to_netmask(e.cidr.len))

(* a desired subnet of the input whose CIDR a Kea subnet already has *)
KeaCollision(v6, e) == e \in DesiredOf(Input, v6) /\ e.cidr \in ExistingCidrs(Input, v6)

(* a desired range of the input whose key a dnsmasq range already has *)
DnsmasqCollision(v6, e, r) ==
    /\ e \in DesiredOf(Input, v6)
    /\ r \in SeqToSet(e.ranges)
    /\ KeyOf(DesiredRangeElement(e, r, v6)) \in extract_existing_dnsmasq_ranges(Input)

(* the Kea subnets with the CIDR are the input's (no force), or one subnet
   that the input did not have (force) *)
KeaCollisionSettled(v6, cidr) ==
    LET before == WithCidr(KeaEntries(Input, v6), cidr)
        after == WithCidr(KeaEntries(doc, v6), cidr)
    IN  IF opts.force_subnets
        THEN Len(after) = 1 /\ after[1] \notin SeqToSet(before)
        ELSE after = before

(* the dnsmasq ranges with the key are the input's (no force), or the one
   desired range, placed after the ranges the input had (force) *)
DnsmasqCollisionSettled(elem) ==
    LET before == WithKey(Input.dnsmasq.ranges, KeyOf(elem))
        after == WithKey(doc.dnsmasq.ranges, KeyOf(elem))
        kept == SelectSeqBy(Input.dnsmasq.ranges,
                            {x \in SeqToSet(Input.dnsmasq.ranges) : KeyOf(x) # KeyOf(elem)})
    IN  IF opts.force_subnets
        THEN /\ after = <<elem>>
             /\ SubSeq(doc.dnsmasq.ranges, 1, Len(kept)) = kept
        ELSE after = before

(* C15: after a convert_config with create_subnets, a desired subnet whose
   CIDR (Kea) or range key (dnsmasq) an existing entry of the target has
   leaves that entry as it was and inserts nothing without force_subnets,
   and with force_subnets has the existing entry removed and one fresh entry
   in its place *)
C15_CollisionSkippedOrReplaced ==
    (runs = 1 /\ ConvertOk /\ opts.create_subnets) =>
        \A v6 \in BOOLEAN :
            \A e \in DesiredOf(Input, v6) :
                IF opts.backend = "Kea"
                THEN KeaCollision(v6, e) => KeaCollisionSettled(v6, e.cidr)
                ELSE \A r \in SeqToSet(e.ranges) :
                        DnsmasqCollision(v6, e, r)
                            => DnsmasqCollisionSettled(DesiredRangeElement(e, r, v6))

-----------------------------------------------------------------------------
(* OptionTranslator on its own: apply_kea_options on one Kea subnet and the
   option loop of convert_dnsmasq on the <dhcp_options> of a dnsmasq section.
   A text value is the sequence of its comma-separated parts, <<>> the empty
   text or an absent value.  Of an option bundle the model keeps the DNS
   servers and, for DHCPv4, the gateway. *)

RECURSIVE dedupe_preserve_order(_, _)
dedupe_preserve_order(values, seen) ==
    IF values = <<>> THEN <<>>
    ELSE IF Head(values) \in seen THEN dedupe_preserve_order(Tail(values), seen)
    ELSE <<Head(values)>> \o dedupe_preserve_order(Tail(values), seen \cup {Head(values)})

NonEmpty(v) == v # ""

join_list(values) == dedupe_preserve_order(SelectSeq(values, NonEmpty), {})

(* the position of the first child with the tag, 0 if there is none *)
get_mut_child_ci(target, tag) ==
    LET at == {i \in 1..Len(target) : eq_ignore_ascii_case(target[i].tag, tag)}
    IN  IF at = {} THEN 0 ELSE CHOOSE i \in at : \A j \in at : i <= j

set_option_value(target, tag, value, force) ==
    LET child == get_mut_child_ci(target, tag)
    IN  IF value = <<>> THEN target
        ELSE IF child = 0 THEN Append(target, [tag |-> tag, text |-> value])
        ELSE IF target[child].text # <<>> /\ ~force THEN target
        ELSE [target EXCEPT ![child].text = value]

(* the interface CIDRs of the document the options are applied to *)
OptionIfaceCidrs == [lan |-> "c_lan", opt1 |-> "c_opt1"]

(* v4_by_cidr / v6_by_cidr: the bundle kept for a CIDR is the last of the list *)
by_cidr(bundles, cidr) ==
    LET at == {i \in 1..Len(bundles) : OptionIfaceCidrs[bundles[i].iface] = cidr}
    IN  IF at = {} THEN <<>> ELSE <<bundles[CHOOSE i \in at : \A j \in at : j <= i]>>

(* an apply_kea_options that leaves option_data_autocollect as it finds it *)
apply_kea_options_keeping_auto(subnet, options_v4, options_v6, force) ==
    LET opt == by_cidr(IF subnet.v6 THEN options_v6 ELSE options_v4, subnet.cidr)
    IN  IF opt = <<>> THEN subnet
        ELSE IF subnet.v6
        THEN [subnet EXCEPT !.option_data =
                 set_option_value(@, "dns_servers", join_list(opt[1].dns_servers), force)]
        ELSE [subnet EXCEPT
                 !.option_data =
                     set_option_value(
                         set_option_value(@, "domain_name_servers",
                                          join_list(opt[1].dns_servers), force),
                         "routers", opt[1].routers, force)]

(* one <subnet4> or <subnet6> of apply_kea_options: subnet is
   [v6, cidr, option_data, auto], auto the text of option_data_autocollect *)
apply_kea_options(subnet, options_v4, options_v6, force) ==
    LET opt == by_cidr(IF subnet.v6 THEN options_v6 ELSE options_v4, subnet.cidr)
    IN  IF opt = <<>> THEN subnet
        ELSE IF subnet.v6
        THEN [subnet EXCEPT !.option_data =
                 set_option_value(@, "dns_servers", join_list(opt[1].dns_servers), force)]
        ELSE [subnet EXCEPT
                 !.auto = "0",
                 !.option_data =
                     set_option_value(
                         set_option_value(@, "domain_name_servers",
                                          join_list(opt[1].dns_servers), force),
                         "routers", opt[1].routers, force)]

DnsmasqOptionSpec(iface, option, option6, value) ==
    [iface |-> iface, option |-> option, option6 |-> option6, value |-> value]

SpecsOfV4(opt) ==
    (IF join_list(opt.dns_servers) # <<>>
     THEN <<DnsmasqOptionSpec(opt.iface, "6", "", join_list(opt.dns_servers))>> ELSE <<>>)
    \o (IF opt.routers # <<>>
        THEN <<DnsmasqOptionSpec(opt.iface, "3", "", opt.routers)>> ELSE <<>>)

SpecsOfV6(opt) ==
    IF join_list(opt.dns_servers) # <<>>
    THEN <<DnsmasqOptionSpec(opt.iface, "", "23", join_list(opt.dns_servers))>> ELSE <<>>

RECURSIVE SpecsOfAll(_, _)
SpecsOfAll(bundles, v6) ==
    IF bundles = <<>> THEN <<>>
    ELSE (IF v6 THEN SpecsOfV6(Head(bundles)) ELSE SpecsOfV4(Head(bundles)))
         \o SpecsOfAll(Tail(bundles), v6)

dnsmasq_option_specs_from_isc(options_v4, options_v6) ==
    SpecsOfAll(options_v4, FALSE) \o SpecsOfAll(options_v6, TRUE)

dnsmasq_option_key(opt_type, option, option6, iface, tag, set_tag) ==
    <<opt_type, option, option6, iface, tag, set_tag>>

option_key_for_spec(spec) ==
    dnsmasq_option_key("set", spec.option, spec.option6, spec.iface, "", "")

(* <<>> for None *)
dnsmasq_option_key_from_elem(elem) ==
    IF ~eq_ignore_ascii_case(elem.type, "set") THEN <<>>
    ELSE <<dnsmasq_option_key(elem.type, elem.option, elem.option6, elem.iface,
                              elem.tag, elem.set_tag)>>

extract_existing_dnsmasq_options(children) ==
    {dnsmasq_option_key(e.type, e.option, e.option6, e.iface, e.tag, e.set_tag) :
        e \in {x \in SeqToSet(children) : eq_ignore_ascii_case(x.type, "set")}}

create_dnsmasq_option_element(iface, option, option6, value) ==
    [type |-> "set", option |-> option, option6 |-> option6, iface |-> iface,
     tag |-> "", set_tag |-> "", value |-> value]

(* the option loop of convert_dnsmasq: children are the <dhcp_options> of
   the dnsmasq section, existing_options the keys read before the loop *)
RECURSIVE ApplyDnsmasqOptions(_, _, _, _)
ApplyDnsmasqOptions(children, existing_options, desired_options, force) ==
    IF desired_options = <<>> THEN children
    ELSE LET spec == Head(desired_options)
             key == option_key_for_spec(spec)
             elem == create_dnsmasq_option_element(spec.iface, spec.option, spec.option6,
                                                   spec.value)
         IN  IF key \in existing_options /\ ~force
             THEN ApplyDnsmasqOptions(children, existing_options, Tail(desired_options), force)
             ELSE ApplyDnsmasqOptions(
                      Append(IF key \in existing_options
                             THEN SelectSeqBy(children,
                                      {c \in SeqToSet(children) :
                                          dnsmasq_option_key_from_elem(c) # <<key>>})
                             ELSE children,
                             elem),
                      existing_options, Tail(desired_options), force)

(* the option bundles of the source: none or one per family *)
BundlesV4 ==
    {<<>>} \cup {<<[iface |-> i, dns_servers |-> s, routers |-> r]>> :
                    i \in {"lan", "opt1"},
                    s \in {<<>>, <<"b">>, <<"b", "", "b", "c">>},
                    r \in {<<>>, <<"g">>}}

BundlesV6 == {<<>>, <<[iface |-> "lan", dns_servers |-> <<"b">>]>>}

KeaOptionElems(v6) ==
    {[tag |-> t, text |-> x] :
        t \in IF v6 THEN {"dns_servers"} ELSE {"domain_name_servers", "routers"},
        x \in {<<>>, <<"a">>}}

DnsmasqOptionElems ==
    {[type |-> t, option |-> c[1], option6 |-> c[2], iface |-> "lan", tag |-> g,
      set_tag |-> "", value |-> <<"a">>] :
        t \in {"set", "SET", "match"}, c \in {<<"6", "">>, <<"", "23">>}, g \in {"", "t"}}

InitOptions ==
    /\ \E force \in BOOLEAN, o4 \in BundlesV4, o6 \in BundlesV6, k \in 0..MaxOptions :
          \/ \E v6 \in BOOLEAN, c \in {"c_lan", "c_opt1"}, a \in {"", "1"} :
                \E q \in [1..k -> KeaOptionElems(v6)] :
                    fn = [backend |-> "Kea", force |-> force, v4 |-> o4, v6 |-> o6,
                          target |-> [v6 |-> v6, cidr |-> c, option_data |-> q, auto |-> a],
                          out |-> <<>>]
          \/ \E q \in [1..k -> DnsmasqOptionElems] :
                fn = [backend |-> "Dnsmasq", force |-> force, v4 |-> o4, v6 |-> o6,
                      target |-> q, out |-> <<>>]
    /\ doc = <<>>
    /\ opts = <<>>
    /\ scan = <<>>
    /\ conv = <<>>
    /\ prev = <<>>
    /\ written = <<>>
    /\ runs = 0

ApplyKeaOptions ==
    /\ fn.out = <<>>
    /\ fn.backend = "Kea"
    /\ fn' = [fn EXCEPT !.out = <<apply_kea_options(fn.target, fn.v4, fn.v6, fn.force)>>]
    /\ UNCHANGED <<doc, opts, scan, conv, prev, written, runs>>

ApplyOptionsDnsmasq ==
    /\ fn.out = <<>>
    /\ fn.backend = "Dnsmasq"
    /\ fn' = [fn EXCEPT !.out =
                 <<ApplyDnsmasqOptions(fn.target, extract_existing_dnsmasq_options(fn.target),
                                       dnsmasq_option_specs_from_isc(fn.v4, fn.v6), fn.force)>>]
    /\ UNCHANGED <<doc, opts, scan, conv, prev, written, runs>>

NextOptions == ApplyKeaOptions \/ ApplyOptionsDnsmasq

SpecOptions == InitOptions /\ [][NextOptions]_vars

(* the value a Kea <option_data> holds for a field: the text of the first
   child with the tag *)
ValueOf(option_data, tag) ==
    IF get_mut_child_ci(option_data, tag) = 0 THEN <<>>
    ELSE option_data[get_mut_child_ci(option_data, tag)].text

(* the fields apply_kea_options assigns on the subnet, with the desired values *)
DesiredFields ==
    LET opt == by_cidr(IF fn.target.v6 THEN fn.v6 ELSE fn.v4, fn.target.cidr)
    IN  IF opt = <<>> THEN {}
        ELSE IF fn.target.v6
        THEN {<<"dns_servers", join_list(opt[1].dns_servers)>>}
        ELSE {<<"domain_name_servers", join_list(opt[1].dns_servers)>>,
              <<"routers", opt[1].routers>>}

(* a dnsmasq option of the direction, option code and interface of a spec *)
SameOption(e, spec) ==
    /\ eq_ignore_ascii_case(e.type, "set")
    /\ e.option = spec.option
    /\ e.option6 = spec.option6
    /\ e.iface = spec.iface

OptionsLike(children, spec) ==
    SelectSeqBy(children, {e \in SeqToSet(children) : SameOption(e, spec)})

(* C16: when options are applied, an option the target already has under the
   key of a desired one (the subnet and field on Kea; the direction, option
   code and interface on dnsmasq) keeps its value without force_options, and
   with force_options is replaced by the one entry with the desired value *)
C16_ExistingOptionKeptOrReplaced ==
    fn.out # <<>> =>
        IF fn.backend = "Kea"
        THEN \A f \in DesiredFields :
                (f[2] # <<>> /\ ValueOf(fn.target.option_data, f[1]) # <<>>) =>
                    ValueOf(fn.out[1].option_data, f[1])
                        = IF fn.force THEN f[2] ELSE ValueOf(fn.target.option_data, f[1])
        ELSE \A i \in 1..Len(dnsmasq_option_specs_from_isc(fn.v4, fn.v6)) :
                LET spec == dnsmasq_option_specs_from_isc(fn.v4, fn.v6)[i]
                    before == OptionsLike(fn.target, spec)
                    after == OptionsLike(fn.out[1], spec)
                IN  before # <<>> =>
                        IF fn.force
                        THEN after = <<create_dnsmasq_option_element(
                                           spec.iface, spec.option, spec.option6, spec.value)>>
                        ELSE SeqToSet(before) \subseteq SeqToSet(after)

-----------------------------------------------------------------------------
(* ServiceToggler on its own: the disabling of the source service that
   convert_kea and convert_dnsmasq perform under enable_backend, over every
   <dhcpd> of at most MaxIfaces interface nodes *)

EnableTexts == {"absent", "", "0", " 0 ", "1", "yes"}

NodesOver(names, k) ==
    {q \in [1..k -> [name : names, enable : EnableTexts]] :
        \A i, j \in 1..k : q[i].name = q[j].name => i = j}

(* the sections of the other family: none, one enabled interface, and two
   interfaces of which the later-sorted one comes first *)
FewNodes ==
    {<<>>,
     <<[name |-> "lan", enable |-> "1"]>>,
     <<[name |-> "opt1", enable |-> "yes"], [name |-> "lan", enable |-> "1"],
       [name |-> "wan", enable |-> "absent"]>>}

InitServices ==
    /\ \E k \in 0..MaxIfaces, r \in FewNodes, v6 \in BOOLEAN :
          \E q \in NodesOver(SeqToSet(SortedNames), k) :
              fn = [doc |-> [dhcpd |-> IF v6 THEN r ELSE q, dhcpdv6 |-> IF v6 THEN q ELSE r],
                    out |-> <<>>]
    /\ doc = <<>>
    /\ opts = <<>>
    /\ scan = <<>>
    /\ conv = <<>>
    /\ prev = <<>>
    /\ written = <<>>
    /\ runs = 0

(* the enable_backend step of a convert: out holds the document it leaves
   and the isc_disabled_v4 / isc_disabled_v6 it puts into the stats *)
DisableIsc ==
    /\ fn.out = <<>>
    /\ fn' = [fn EXCEPT !.out = <<disable_isc_dhcp_from_config(fn.doc)>>]
    /\ UNCHANGED <<doc, opts, scan, conv, prev, written, runs>>

NextServices == DisableIsc

SpecServices == InitServices /\ [][NextServices]_vars

(* the place of a name in the sorted order *)
NameRank(name) == CHOOSE i \in 1..Len(SortedNames) : SortedNames[i] = name

IsSortedNames(list) ==
    \A i, j \in 1..Len(list) : i < j => NameRank(list[i]) < NameRank(list[j])

(* an <enable> that is present with a text that is neither empty nor "0" *)
FlagOn(node) == node.enable \notin {"absent", "", " ", "0", " 0 "}

(* the names of the nodes whose <enable> the step changed *)
Cleared(before, after) == {before[i].name : i \in {j \in 1..Len(before) : before[j] # after[j]}}

StillOn(before, after) == {i \in 1..Len(before) : FlagOn(before[i]) /\ FlagOn(after[i])}

(* C17: after the enable_backend step of a convert no interface that was
   enabled in the input is enabled in the output, and isc_disabled_v4 and
   isc_disabled_v6 are the sorted lists of exactly the interfaces whose
   enable flag the step cleared *)
C17_EnabledInterfacesClearedAndReported ==
    fn.out # <<>> =>
        /\ Len(fn.out[1].doc.dhcpd) = Len(fn.doc.dhcpd)
        /\ Len(fn.out[1].doc.dhcpdv6) = Len(fn.doc.dhcpdv6)
        /\ StillOn(fn.doc.dhcpd, fn.out[1].doc.dhcpd) = {}
        /\ StillOn(fn.doc.dhcpdv6, fn.out[1].doc.dhcpdv6) = {}
        /\ SeqToSet(fn.out[1].disabled_v4) = Cleared(fn.doc.dhcpd, fn.out[1].doc.dhcpd)
        /\ SeqToSet(fn.out[1].disabled_v6) = Cleared(fn.doc.dhcpdv6, fn.out[1].doc.dhcpdv6)
        /\ IsSortedNames(fn.out[1].disabled_v4)
        /\ IsSortedNames(fn.out[1].disabled_v6)

(* a step that cleared two DHCPv4 interfaces declared against the sorted
   order, left a third alone, and cleared DHCPv6 interfaces as well *)
C17_Witness ==
    /\ fn.out # <<>>
    /\ Len(fn.doc.dhcpd) = 3
    /\ FlagOn(fn.doc.dhcpd[1]) /\ FlagOn(fn.doc.dhcpd[2]) /\ ~FlagOn(fn.doc.dhcpd[3])
    /\ NameRank(fn.doc.dhcpd[2].name) < NameRank(fn.doc.dhcpd[1].name)
    /\ fn.out[1].disabled_v4 = <<fn.doc.dhcpd[2].name, fn.doc.dhcpd[1].name>>
    /\ fn.out[1].disabled_v6 = <<"lan", "opt1">>

(* C20: an interface counts as enabled exactly when its enable flag is
   present with a value that is neither empty nor false; an interface
   without the flag is disabled already: the step leaves its node as it was
   and does not report it *)
C20_EnabledIffFlagSet ==
    /\ SeqToSet(isc_enabled_ifaces(fn.doc.dhcpd))
           = {n.name : n \in {x \in SeqToSet(fn.doc.dhcpd) : FlagOn(x)}}
    /\ SeqToSet(isc_enabled_ifaces(fn.doc.dhcpdv6))
           = {n.name : n \in {x \in SeqToSet(fn.doc.dhcpdv6) : FlagOn(x)}}
    /\ fn.out # <<>> =>
          /\ \A i \in 1..Len(fn.doc.dhcpd) :
                fn.doc.dhcpd[i].enable = "absent" =>
                    /\ fn.out[1].doc.dhcpd[i] = fn.doc.dhcpd[i]
                    /\ fn.doc.dhcpd[i].name \notin SeqToSet(fn.out[1].disabled_v4)
          /\ \A i \in 1..Len(fn.doc.dhcpdv6) :
                fn.doc.dhcpdv6[i].enable = "absent" =>
                    /\ fn.out[1].doc.dhcpdv6[i] = fn.doc.dhcpdv6[i]
                    /\ fn.doc.dhcpdv6[i].name \notin SeqToSet(fn.out[1].disabled_v6)

(* a step over an interface without the flag, one whose flag holds a padded
   "0" and one whose flag is set, of which the last alone is reported *)
C20_Witness ==
    /\ fn.out # <<>>
    /\ Len(fn.doc.dhcpd) = 3
    /\ fn.doc.dhcpd[1].enable = "absent"
    /\ fn.doc.dhcpd[2].enable = " 0 "
    /\ fn.doc.dhcpd[3].enable = "yes"
    /\ fn.out[1].disabled_v4 = <<fn.doc.dhcpd[3].name>>
    /\ fn.out[1].doc.dhcpd[1].enable = "absent"

(* the target subnets of a family at the end of a convert_config *)
SubnetsAtEnd(v6) == IF v6 THEN extract_kea_subnets_v6(doc) ELSE extract_kea_subnets(doc)

KeaEnabled(d, v6) == IF v6 THEN d.kea.enabled6 ELSE d.kea.enabled4

(* C18: a successful convert_config with enable_backend on Kea turns the
   service flag of a family on only if the family has a target subnet at the
   end, and does not succeed with a family that has a subnet and is not
   enabled *)
C18_KeaEnabledWithSubnets ==
    (runs >= 1 /\ ConvertOk /\ opts.backend = "Kea" /\ opts.enable_backend) =>
        \A v6 \in BOOLEAN :
            /\ (KeaEnabled(doc, v6) /\ ~KeaEnabled(Input, v6)) => SubnetsAtEnd(v6) # <<>>
            /\ SubnetsAtEnd(v6) # <<>> => KeaEnabled(doc, v6)

(* a convert_config that created the one DHCPv4 subnet of the target and
   enabled DHCPv4 alone, DHCPv6 having no subnet *)
C18_Witness ==
    /\ runs = 1
    /\ ConvertOk
    /\ opts.backend = "Kea"
    /\ opts.enable_backend
    /\ extract_kea_subnets(Input) = <<>>
    /\ SubnetsAtEnd(FALSE) # <<>>
    /\ SubnetsAtEnd(TRUE) = <<>>
    /\ doc.kea.dhcp6
    /\ doc.kea.enabled4
    /\ ~doc.kea.enabled6

(* the input has a range for dnsmasq: a desired one or one of the target *)
HasRanges ==
    \/ desired_subnets_v4(Input).entries # {}
    \/ desired_subnets_v6(Input).entries # {}
    \/ extract_existing_dnsmasq_ranges(Input) # {}

(* C19: a successful convert_config with enable_backend on dnsmasq leaves the
   service flag enabled when a DHCPv4 or DHCPv6 range exists, desired or of
   the target, and as it was when none exists; it does not succeed with a
   range and the flag not enabled *)
C19_DnsmasqEnabledWithRanges ==
    (runs >= 1 /\ ConvertOk /\ opts.backend = "Dnsmasq" /\ opts.enable_backend) =>
        IF HasRanges THEN doc.dnsmasq.enabled
        ELSE doc.dnsmasq.enabled = Input.dnsmasq.enabled

(* a convert_config without create_subnets that enabled dnsmasq for the
   ranges of the source alone *)
C19_Witness ==
    /\ runs = 1
    /\ ConvertOk
    /\ opts.backend = "Dnsmasq"
    /\ opts.enable_backend
    /\ ~opts.create_subnets
    /\ extract_existing_dnsmasq_ranges(Input) = {}
    /\ HasRanges
    /\ ~Input.dnsmasq.enabled
    /\ doc.dnsmasq.enabled

(* the interface nodes of <dhcpd> that hold a static mapping *)
MappedNodes(d) ==
    {n \in SeqToSet(d.dhcpd) :
        \E m \in SeqToSet(d.maps4) : eq_ignore_ascii_case(m.iface, n.name)}

(* C21: a successful convert_config on Kea with enable_backend and without
   create_subnets reports in isc_disabled_v4 every DHCPv4 interface of the
   source that holds static mappings, whether or not the interface has
   ranges or an <enable> element *)
C21_MappedInterfacesReported ==
    (runs = 1 /\ ConvertOk /\ opts.backend = "Kea" /\ opts.enable_backend
     /\ ~opts.create_subnets /\ conv[1].to_create > 0) =>
        \A n \in MappedNodes(Input) : n.name \in SeqToSet(conv[1].isc_disabled_v4)

-----------------------------------------------------------------------------
(* The listening interfaces on their own: apply_kea_interfaces and
   apply_dnsmasq_interfaces over every field text of at most MaxIfaces parts *)

FieldTexts(k) == [1..k -> {"lan", "opt1", "wan", ""}]

FewFieldTexts == {<<>>, <<"wan">>, <<"opt1", "lan">>}

(* the desired subnets, of which the merge reads the interface alone *)
DesiredIfaces ==
    {<<>>, <<[iface |-> "lan"]>>, <<[iface |-> "opt2"]>>,
     <<[iface |-> "opt2"], [iface |-> "lan"]>>}

InitInterfaces ==
    /\ \E k \in 0..MaxIfaces, r \in FewFieldTexts, dv4 \in DesiredIfaces, dv6 \in DesiredIfaces :
          \E q \in FieldTexts(k) :
              \/ fn = [backend |-> "Kea", dv4 |-> dv4, dv6 |-> dv6,
                       doc |-> [kea |-> [ifaces4 |-> q, ifaces6 |-> r]], out |-> <<>>]
              \/ fn = [backend |-> "Dnsmasq", dv4 |-> dv4, dv6 |-> dv6,
                       doc |-> [dnsmasq |-> [ifaces |-> q]], out |-> <<>>]
    /\ doc = <<>>
    /\ opts = <<>>
    /\ scan = <<>>
    /\ conv = <<>>
    /\ prev = <<>>
    /\ written = <<>>
    /\ runs = 0

ApplyKeaInterfaces ==
    /\ fn.out = <<>>
    /\ fn.backend = "Kea"
    /\ fn' = [fn EXCEPT !.out = <<apply_kea_interfaces(fn.doc, fn.dv4, fn.dv6)>>]
    /\ UNCHANGED <<doc, opts, scan, conv, prev, written, runs>>

ApplyDnsmasqInterfaces ==
    /\ fn.out = <<>>
    /\ fn.backend = "Dnsmasq"
    /\ fn' = [fn EXCEPT !.out = <<apply_dnsmasq_interfaces(fn.doc, fn.dv4, fn.dv6)>>]
    /\ UNCHANGED <<doc, opts, scan, conv, prev, written, runs>>

NextInterfaces == ApplyKeaInterfaces \/ ApplyDnsmasqInterfaces

SpecInterfaces == InitInterfaces /\ [][NextInterfaces]_vars

(* a field that is the sorted, duplicate-free list of what it listed and of
   the interfaces of the desired subnets *)
Merged(before, after, desired) ==
    /\ IsSortedNames(after)
    /\ SeqToSet(after) = (SeqToSet(before) \ {""}) \cup IfaceNames(desired)

(* C22: a listening-interfaces field that convert_config wrote is the
   sorted, duplicate-free list of the interfaces the field listed before and
   the interfaces of the desired subnets, one field per family on Kea and
   one for both families on dnsmasq; no listed interface is dropped *)
C22_InterfacesMerged ==
    fn.out # <<>> =>
        IF fn.backend = "Kea"
        THEN /\ fn.dv4 # <<>> => Merged(fn.doc.kea.ifaces4, fn.out[1].kea.ifaces4, fn.dv4)
             /\ fn.dv6 # <<>> => Merged(fn.doc.kea.ifaces6, fn.out[1].kea.ifaces6, fn.dv6)
        ELSE (fn.dv4 # <<>> \/ fn.dv6 # <<>>) =>
                Merged(fn.doc.dnsmasq.ifaces, fn.out[1].dnsmasq.ifaces, fn.dv4 \o fn.dv6)

(* a Kea DHCPv4 field that listed wan and lan, lan twice and against the
   sorted order, and had opt2 merged into it *)
C22_Witness ==
    /\ fn.out # <<>>
    /\ fn.backend = "Kea"
    /\ fn.doc.kea.ifaces4 = <<"wan", "lan", "lan">>
    /\ fn.dv4 = <<[iface |-> "opt2"]>>
    /\ fn.out[1].kea.ifaces4 = <<"lan", "opt2", "wan">>

(* C23: when apply_kea_options sets a DHCPv4 option value on a target
   subnet, the subnet's option_data_autocollect is "0" afterwards *)
C23_AutocollectOffWhenOptionSet ==
    (fn.out # <<>> /\ fn.backend = "Kea" /\ ~fn.target.v6
     /\ fn.out[1].option_data # fn.target.option_data) => fn.out[1].auto = "0"

(* a subnet with the automatic collection on that got its gateway set *)
C23_Witness ==
    /\ fn.out # <<>>
    /\ fn.backend = "Kea"
    /\ ~fn.target.v6
    /\ fn.target.auto = "1"
    /\ fn.target.option_data = <<>>
    /\ fn.out[1].option_data = <<[tag |-> "routers", text |-> <<"g">>]>>
    /\ fn.out[1].auto = "0"


(* nothing can be synthesised from the source: both families' desired lists
   are computed without error and are empty *)
NothingToSynthesize(d) ==
    /\ desired_subnets_v4(d).err = "" /\ desired_subnets_v4(d).entries = {}
    /\ desired_subnets_v6(d).err = "" /\ desired_subnets_v6(d).entries = {}

(* the v4 family has mappings, a <dhcp4> section and no target subnet *)
NeedsSubnets4(d) ==
    extract_isc_mappings(d) # <<>> /\ has_kea_dhcp4(d) /\ extract_kea_subnets(d) = <<>>

(* the same of the v6 family, the v4 checks having passed *)
NeedsSubnets6(d) ==
    /\ extract_isc_mappings_v6(d) # <<>> /\ has_kea_dhcp6(d) /\ extract_kea_subnets_v6(d) = <<>>
    /\ (extract_isc_mappings(d) = <<>> \/ extract_kea_subnets(d) # <<>>)

(* C24 as stated: with create_subnets set and nothing to synthesise a subnet
   from, scan_config and convert_config do not complete *)
C24_NothingToCreateFails ==
    (runs <= 1 /\ opts.create_subnets /\ NothingToSynthesize(Input)) =>
        /\ (scan # <<>> => scan[1].err # "")
        /\ (runs = 1 => conv[1].err # "")

(* every mapping names the interface its address derives, whatever order the
   interface maps iterate in *)
MappingsValid(d) ==
    /\ \A h4 \in HashOrders(extract_interface_cidrs(d)) :
            validate_mapping_ifaces(extract_isc_mappings(d), h4) = ""
    /\ \A h6 \in HashOrders(extract_interface_cidrs_v6(d)) :
            validate_mapping_ifaces(extract_isc_mappings_v6(d), h6) = ""

(* C24 amended: on Kea, with create_subnets set and nothing to synthesise, a
   family that has mappings and a dhcp section but no target subnet makes
   scan_config fail with the no-ranges error and convert_config fail, with the
   no-ranges error when the mappings pass the interface validation that
   convert_config runs first *)
C24_NoRangesAndNoSubnetsFails ==
    (runs <= 1 /\ opts.backend = "Kea" /\ opts.create_subnets /\ NothingToSynthesize(Input)
     /\ (NeedsSubnets4(Input) \/ NeedsSubnets6(Input))) =>
        /\ (scan # <<>> => scan[1].err = "NoRangesForSubnets")
        /\ (runs = 1 => conv[1].err # "")
        /\ (runs = 1 /\ MappingsValid(Input) => conv[1].err = "NoRangesForSubnets")

C24_Witness ==
    /\ runs = 1 /\ scan # <<>> /\ opts.backend = "Kea" /\ opts.create_subnets
    /\ NothingToSynthesize(Input) /\ NeedsSubnets4(Input)
    /\ scan[1].err = "NoRangesForSubnets" /\ conv[1].err = "NoRangesForSubnets"


-----------------------------------------------------------------------------
(* The convert command: run_convert over a directory that holds the input,
   the output, a third name and the temporary file, each name absent, a file
   or a symbolic link to another name; a path spells a name bare, with a
   leading "./" or absolutely *)

FileNames == {"in.xml", "out.xml", "link.xml"}

TmpName == "tmp"

PathForms == {"rel", "dot", "abs"}

Paths == [form : PathForms, name : FileNames]

NoEntry == [kind |-> "none", to |-> "", data |-> ""]

FileEntry(data) == [kind |-> "file", to |-> "", data |-> data]

LinkEntry(name) == [kind |-> "link", to |-> name, data |-> ""]

EntriesOf(name) == {NoEntry, FileEntry("isc")} \cup {LinkEntry(n) : n \in FileNames \ {name}}

FileSystems ==
    {fs \in [FileNames \cup {TmpName} -> {NoEntry, FileEntry("isc")} \cup {LinkEntry(n) : n \in FileNames}] :
        /\ \A n \in FileNames : fs[n] \in EntriesOf(n)
        /\ fs[TmpName] \in {NoEntry, FileEntry("isc")}}

(* the name a name resolves to, following symbolic links *)
RECURSIVE ResolveName(_, _, _)
ResolveName(fs, name, fuel) ==
    IF fs[name].kind = "none" THEN [err |-> "NotFound", name |-> name]
    ELSE IF fs[name].kind = "file" THEN [err |-> "", name |-> name]
    ELSE IF fuel = 0 THEN [err |-> "Loop", name |-> name]
    ELSE ResolveName(fs, fs[name].to, fuel - 1)

(* a canonicalisation that does not follow symbolic links *)
canonicalize_lexical(fs, path) ==
    IF fs[path.name].kind = "none" THEN [err |-> "NotFound", path |-> path]
    ELSE [err |-> "", path |-> [form |-> "abs", name |-> path.name]]

(* std::fs::canonicalize: the absolute path of the file the path resolves to *)
canonicalize(fs, path) ==
    LET r == ResolveName(fs, path.name, Cardinality(FileNames))
    IN  IF r.err = "" THEN [err |-> "", path |-> [form |-> "abs", name |-> r.name]]
        ELSE [err |-> r.err, path |-> path]

(* Path::exists *)
exists(fs, path) == ResolveName(fs, path.name, Cardinality(FileNames)).err = ""

(* the output path rebuilt from its canonical parent directory and its file
   name; a bare name has the empty parent, which does not canonicalise *)
reconstructed_out(out) ==
    IF out.form = "rel" THEN <<>> ELSE <<[form |-> "abs", name |-> out.name]>>

remove_file(fs, name) == [fs EXCEPT ![name] = NoEntry]

rename(fs, from, to) == [fs EXCEPT ![to] = fs[from], ![from] = NoEntry]

(* run_convert after the path checks: open the input, create the temporary
   file, convert into it and move it over the output *)
RunConvertChecked(fs, args) ==
    IF ~exists(fs, args.in) THEN [err |-> "OpenInput", fs |-> fs]
    ELSE IF ~args.force /\ exists(fs, args.out) THEN [err |-> "OutputExists", fs |-> fs]
    ELSE IF fs[TmpName].kind # "none" THEN [err |-> "CreateTmp", fs |-> fs]
    ELSE IF ~args.converts THEN [err |-> "Convert", fs |-> fs]
    ELSE LET written_tmp == [fs EXCEPT ![TmpName] = FileEntry("converted")]
             removed == IF args.force /\ exists(written_tmp, args.out)
                        THEN remove_file(written_tmp, args.out.name) ELSE written_tmp
         IN  [err |-> "", fs |-> rename(removed, TmpName, args.out.name)]

(* run_convert *)
run_convert(fs, args) ==
    LET in_canonical == canonicalize(fs, args.in).path
        out == canonicalize(fs, args.out)
        out_missing == out.err = "NotFound"
    IN  IF in_canonical = out.path THEN [err |-> "SamePath", fs |-> fs]
        ELSE IF out_missing /\ reconstructed_out(args.out) = <<in_canonical>>
             THEN [err |-> "SamePath", fs |-> fs]
             ELSE RunConvertChecked(fs, args)

ConvertArgs == [in : Paths, out : Paths, force : BOOLEAN, converts : BOOLEAN]

InitCli ==
    /\ \E fs \in FileSystems, args \in ConvertArgs : fn = [fs |-> fs, args |-> args, out |-> <<>>]
    /\ doc = <<>>
    /\ opts = <<>>
    /\ scan = <<>>
    /\ conv = <<>>
    /\ prev = <<>>
    /\ written = <<>>
    /\ runs = 0

RunConvert ==
    /\ fn.out = <<>>
    /\ fn' = [fn EXCEPT !.out = <<run_convert(fn.fs, fn.args)>>]
    /\ UNCHANGED <<doc, opts, scan, conv, prev, written, runs>>

NextCli == RunConvert

SpecCli == InitCli /\ [][NextCli]_vars

(* the two paths resolve to one existing file *)
SameFile(fs, a, b) ==
    /\ exists(fs, a) /\ exists(fs, b)
    /\ ResolveName(fs, a.name, Cardinality(FileNames)).name
           = ResolveName(fs, b.name, Cardinality(FileNames)).name

(* C25: when the output path resolves to the file the input path resolves to,
   run_convert fails and no file is created, removed or modified *)
C25_SameFileRefused ==
    (fn.out # <<>> /\ SameFile(fn.fs, fn.args.in, fn.args.out)) =>
        fn.out[1].err = "SamePath" /\ fn.out[1].fs = fn.fs

C25_Witness ==
    /\ fn.out # <<>> /\ SameFile(fn.fs, fn.args.in, fn.args.out)
    /\ fn.args.in.name # fn.args.out.name /\ fn.args.force /\ fn.args.converts
    /\ fn.fs[TmpName].kind = "none"
    /\ fn.out[1].err = "SamePath"


(* the service flag of the target backend that covers a family *)
ServiceEnabled(d, v6) ==
    IF opts.backend = "Kea" THEN (IF v6 THEN d.kea.enabled6 ELSE d.kea.enabled4)
    ELSE d.dnsmasq.enabled

(* C26: a successful convert_config with enable_backend that disabled a source
   interface of a family leaves the target's service flag of that family
   enabled in the output *)
C26_DisabledFamilyIsServed ==
    (runs = 1 /\ ConvertOk /\ opts.enable_backend) =>
        /\ (conv[1].isc_disabled_v4 # <<>> => ServiceEnabled(written[1], FALSE))
        /\ (conv[1].isc_disabled_v6 # <<>> => ServiceEnabled(written[1], TRUE))


(* C27: on one input document and one set of options, scan_config succeeds
   exactly when convert_config succeeds *)
C27_ScanSucceedsIffConvertSucceeds ==
    (runs = 1 /\ scan # <<>>) => (ScanOk <=> ConvertOk)


(* the identifiers of the subnet elements of a family in a document *)
SubnetIds(d, v6) ==
    IF v6 THEN {x.uuid : x \in SeqToSet(d.kea.subnets6)}
    ELSE {x.uuid : x \in SeqToSet(d.kea.subnets4) \cup SeqToSet(d.kea.direct4)}

(* the records of the output are linked to subnets of the output: those
   appended, and those of the input that were linked to a subnet of the input *)
LinksValid(before, after, idsBefore, idsAfter) ==
    \A k \in 1..Len(after) :
        (k > Len(before) \/ after[k].subnet \in idsBefore) => after[k].subnet \in idsAfter

(* C28: after a successful convert_config on Kea every reservation of the
   output, appended or already validly linked in the input, carries the
   identifier of a subnet of the output, also after force_subnets replaced a
   subnet *)
C28_ReservationLinksValid ==
    (runs = 1 /\ ConvertOk /\ opts.backend = "Kea") =>
        /\ LinksValid(Input.kea.res4, written[1].kea.res4,
                      SubnetIds(Input, FALSE), SubnetIds(written[1], FALSE))
        /\ LinksValid(Input.kea.res6, written[1].kea.res6,
                      SubnetIds(Input, TRUE), SubnetIds(written[1], TRUE))


(* no two subnets of the list have one CIDR *)
DistinctCidrs(subnets) ==
    \A i, j \in 1..Len(subnets) : i # j => subnets[i].cidr # subnets[j].cidr

(* C29: when the Kea subnets of a family have distinct CIDRs in the input,
   they have distinct CIDRs in the output of a successful convert_config with
   create_subnets, with or without force_subnets *)
C29_SubnetCidrsStayDistinct ==
    (runs = 1 /\ ConvertOk /\ opts.backend = "Kea" /\ opts.create_subnets) =>
        /\ (DistinctCidrs(extract_kea_subnets(Input))
                => DistinctCidrs(extract_kea_subnets(written[1])))
        /\ (DistinctCidrs(extract_kea_subnets_v6(Input))
                => DistinctCidrs(extract_kea_subnets_v6(written[1])))


(* the records of the target backend in a document, both families *)
TargetRecords(d) ==
    IF opts.backend = "Kea" THEN d.kea.res4 \o d.kea.res6 ELSE d.dnsmasq.hosts

(* the document with the records of the target backend taken out *)
WithoutRecords(d) ==
    IF opts.backend = "Kea" THEN [d EXCEPT !.kea.res4 = <<>>, !.kea.res6 = <<>>]
    ELSE [d EXCEPT !.dnsmasq.hosts = <<>>]

IsPrefix(a, b) == Len(a) <= Len(b) /\ SubSeq(b, 1, Len(a)) = a

(* the records of the input are kept in place and n records follow them *)
RecordsAppended(before, after, n) == IsPrefix(before, after) /\ Len(after) = Len(before) + n

(* C30: with create_subnets and enable_backend unset (options are not
   translated), a successful convert_config changes the document only by
   appending the records it accepted to the records of the target backend *)
C30_OnlyRecordsAppended ==
    (runs = 1 /\ ConvertOk /\ ~opts.create_subnets /\ ~opts.enable_backend) =>
        /\ WithoutRecords(written[1]) = WithoutRecords(Input)
        /\ IF opts.backend = "Kea"
           THEN /\ RecordsAppended(Input.kea.res4, written[1].kea.res4, conv[1].to_create)
                /\ RecordsAppended(Input.kea.res6, written[1].kea.res6, conv[1].to_create_v6)
           ELSE RecordsAppended(Input.dnsmasq.hosts, written[1].dnsmasq.hosts,
                                conv[1].to_create + conv[1].to_create_v6)

C30_Witness ==
    /\ runs = 1 /\ ConvertOk /\ ~opts.create_subnets /\ ~opts.enable_backend
    /\ TargetRecords(Input) # <<>>
    /\ Len(TargetRecords(written[1])) > Len(TargetRecords(Input))

====
